---- MODULE Spec2Model ----
(***************************************************************************)
(* HistoryPage of the fleet-tracking dashboard: the tracking-history fetch *)
(* and the trip statistics (calculateStats) computed from the fetched      *)
(* batch.                                                                  *)
(*                                                                         *)
(* JavaScript numbers are IEEE-754 binary64.  The arithmetic the page does *)
(* itself (+, -, *, /, comparison) is modelled exactly, with               *)
(* round-to-nearest-even, on 53-bit significands kept as little-endian     *)
(* sequences of 15-bit limbs.  Subnormals, infinities and -0 do not arise  *)
(* for the values of the model and are left out.                           *)
(***************************************************************************)
EXTENDS Integers, Sequences, FiniteSets, TLC

(***************************************************************************)
(* Natural numbers of any size: little-endian limbs, no leading zero limb. *)
(***************************************************************************)
LimbBits == 15
BASE == 32768
SigBits == 53

Pow2(k) == 2^k

Rest(x) == IF x = <<>> THEN <<>> ELSE Tail(x)
Low(x) == IF x = <<>> THEN 0 ELSE Head(x)

RECURSIVE BTrim(_)
BTrim(x) == IF x = <<>> THEN <<>>
            ELSE IF x[Len(x)] = 0 THEN BTrim(SubSeq(x, 1, Len(x) - 1))
            ELSE x

RECURSIVE BFromInt(_)
BFromInt(k) == IF k = 0 THEN <<>> ELSE <<k % BASE>> \o BFromInt(k \div BASE)

RECURSIVE BAddC(_, _, _)
BAddC(x, y, c) ==
    IF x = <<>> /\ y = <<>>
    THEN (IF c = 0 THEN <<>> ELSE <<c>>)
    ELSE LET s == Low(x) + Low(y) + c
         IN  <<s % BASE>> \o BAddC(Rest(x), Rest(y), s \div BASE)

BAdd(x, y) == BAddC(x, y, 0)

\* x - y for x >= y
RECURSIVE BSubC(_, _, _)
BSubC(x, y, b) ==
    IF x = <<>> THEN <<>>
    ELSE LET d == Low(x) - Low(y) - b
         IN  <<d % BASE>> \o BSubC(Rest(x), Rest(y), IF d < 0 THEN 1 ELSE 0)

BSub(x, y) == BTrim(BSubC(x, y, 0))

\* -1, 0, 1: x below, equal to, above y
RECURSIVE BCmp(_, _)
BCmp(x, y) ==
    IF Len(x) # Len(y) THEN (IF Len(x) < Len(y) THEN -1 ELSE 1)
    ELSE IF x = <<>> THEN 0
    ELSE IF x[Len(x)] # y[Len(y)] THEN (IF x[Len(x)] < y[Len(y)] THEN -1 ELSE 1)
    ELSE BCmp(SubSeq(x, 1, Len(x) - 1), SubSeq(y, 1, Len(y) - 1))

\* x * k + c for a limb-sized k
RECURSIVE BMulSmallC(_, _, _)
BMulSmallC(x, k, c) ==
    IF x = <<>> THEN BFromInt(c)
    ELSE LET p == Head(x) * k + c
         IN  <<p % BASE>> \o BMulSmallC(Tail(x), k, p \div BASE)

BMulSmall(x, k) == BTrim(BMulSmallC(x, k, 0))

RECURSIVE BMul(_, _)
BMul(x, y) ==
    IF x = <<>> \/ y = <<>> THEN <<>>
    ELSE BAdd(BMulSmall(y, Head(x)),
              LET r == BMul(Tail(x), y) IN IF r = <<>> THEN <<>> ELSE <<0>> \o r)

Zeros(n) == [i \in 1..n |-> 0]

\* x * 2^d
BShl(x, d) ==
    IF x = <<>> THEN <<>>
    ELSE Zeros(d \div LimbBits) \o BMulSmall(x, Pow2(d % LimbBits))

\* quotient of x by a limb-sized n, most significant limb first
RECURSIVE BDivSmallMS(_, _, _)
BDivSmallMS(x, n, r) ==
    IF x = <<>> THEN [q |-> <<>>, r |-> r]
    ELSE LET cur == r * BASE + x[Len(x)]
             rec == BDivSmallMS(SubSeq(x, 1, Len(x) - 1), n, cur % n)
         IN  [q |-> rec.q \o <<cur \div n>>, r |-> rec.r]

\* [q |-> x div n, r |-> x mod n] for 0 < n < BASE
BDivSmall(x, n) ==
    LET d == BDivSmallMS(x, n, 0) IN [q |-> BTrim(d.q), r |-> d.r]

\* x div 2^d
BShr(x, d) ==
    IF d \div LimbBits >= Len(x) THEN <<>>
    ELSE BDivSmall(SubSeq(x, d \div LimbBits + 1, Len(x)), Pow2(d % LimbBits)).q

BitsOfLimb(v) == CHOOSE k \in 0..LimbBits : v < Pow2(k) /\ (k = 0 \/ v >= Pow2(k - 1))

BitLen(x) == IF x = <<>> THEN 0 ELSE LimbBits * (Len(x) - 1) + BitsOfLimb(x[Len(x)])

\* bit i (from 0) of x
BBit(x, i) ==
    IF i \div LimbBits >= Len(x) THEN 0
    ELSE (x[i \div LimbBits + 1] \div Pow2(i % LimbBits)) % 2

\* some bit below bit k of x is set
BLowNonZero(x, k) ==
    \/ \E j \in 1..Len(x) : j <= k \div LimbBits /\ x[j] # 0
    \/ /\ k \div LimbBits < Len(x)
       /\ x[k \div LimbBits + 1] % Pow2(k % LimbBits) # 0

(***************************************************************************)
(* binary64 values: [nan, neg, m, e] stands for (-1)^neg * m * 2^e with m  *)
(* a 53-bit significand (2^52 <= m < 2^53), or m = <<>> for zero.          *)
(***************************************************************************)
NaN == [nan |-> TRUE, neg |-> FALSE, m |-> <<>>, e |-> 0]
Zero == [nan |-> FALSE, neg |-> FALSE, m |-> <<>>, e |-> 0]

IsZero(x) == ~x.nan /\ x.m = <<>>

\* round-to-nearest-even of s * 2^e (plus a little more when sticky) to 53 bits
RoundToDouble(neg, s, e, sticky) ==
    IF s = <<>> THEN Zero
    ELSE LET len == BitLen(s) IN
         IF len <= SigBits
         THEN [nan |-> FALSE, neg |-> neg, m |-> BShl(s, SigBits - len), e |-> e - (SigBits - len)]
         ELSE LET drop == len - SigBits
                  q == BShr(s, drop)
                  half == BBit(s, drop - 1) = 1
                  rest == sticky \/ BLowNonZero(s, drop - 1)
                  up == half /\ (rest \/ BBit(q, 0) = 1)
                  r == IF up THEN BAdd(q, <<1>>) ELSE q
              IN  IF BitLen(r) > SigBits
                  THEN [nan |-> FALSE, neg |-> neg, m |-> BShr(r, 1), e |-> e + drop + 1]
                  ELSE [nan |-> FALSE, neg |-> neg, m |-> r, e |-> e + drop]

FromInt(k) == RoundToDouble(k < 0, BFromInt(IF k < 0 THEN -k ELSE k), 0, FALSE)

fneg(x) == IF x.nan \/ IsZero(x) THEN x ELSE [x EXCEPT !.neg = ~x.neg]

\* -1, 0, 1 by magnitude (x, y not NaN)
MagCmp(x, y) ==
    IF IsZero(x) \/ IsZero(y)
    THEN (IF IsZero(x) /\ IsZero(y) THEN 0 ELSE IF IsZero(x) THEN -1 ELSE 1)
    ELSE IF x.e # y.e THEN (IF x.e < y.e THEN -1 ELSE 1)
    ELSE BCmp(x.m, y.m)

\* x <= y, x < y (false when either is NaN, as in JavaScript)
fle(x, y) ==
    /\ ~x.nan /\ ~y.nan
    /\ IF x.neg # y.neg THEN x.neg
       ELSE IF x.neg THEN MagCmp(x, y) >= 0 ELSE MagCmp(x, y) <= 0

flt(x, y) == fle(x, y) /\ x # y

\* x + y
fadd(x, y) ==
    IF x.nan \/ y.nan THEN NaN
    ELSE IF IsZero(x) THEN y
    ELSE IF IsZero(y) THEN x
    ELSE LET big == IF MagCmp(x, y) >= 0 THEN x ELSE y
             small == IF MagCmp(x, y) >= 0 THEN y ELSE x
             d == big.e - small.e
         IN  IF d > 2 * SigBits THEN big
             ELSE LET b == BShl(big.m, d)
                  IN  IF big.neg = small.neg
                      THEN RoundToDouble(big.neg, BAdd(b, small.m), small.e, FALSE)
                      ELSE RoundToDouble(big.neg, BSub(b, small.m), small.e, FALSE)

\* x - y
fsub(x, y) == fadd(x, fneg(y))

\* x * y
fmul(x, y) ==
    IF x.nan \/ y.nan THEN NaN
    ELSE IF IsZero(x) \/ IsZero(y) THEN Zero
    ELSE RoundToDouble(x.neg # y.neg, BMul(x.m, y.m), x.e + y.e, FALSE)

\* x / n for an integer 0 <= n < BASE (an exact double); 0 / 0 is NaN
fdivInt(x, n) ==
    IF x.nan \/ (IsZero(x) /\ n = 0) THEN NaN
    ELSE IF IsZero(x) THEN Zero
    ELSE LET d == BDivSmall(BShl(x.m, 2 * LimbBits), n)
         IN  RoundToDouble(x.neg, d.q, x.e - 2 * LimbBits, d.r # 0)

\* the double a decimal literal k / 10^d denotes (d <= 4)
Dec(k, d) == fdivInt(FromInt(k), 10^d)

(***************************************************************************)
(* Math.PI and the Math library.  Math.sin, Math.cos, Math.sqrt and        *)
(* Math.atan2 belong to the JavaScript engine; they are tabulated, with    *)
(* the correctly rounded binary64 result, for the arguments the haversine  *)
(* computation reaches on the coordinates of Points.                       *)
(***************************************************************************)
D(l1, l2, l3, l4, e) == [nan |-> FALSE, neg |-> FALSE, m |-> <<l1, l2, l3, l4>>, e |-> e]

PI == D(11544, 10376, 2029, 201, -51)

One == FromInt(1)

fabs(x) == IF x.nan THEN x ELSE [x EXCEPT !.neg = FALSE]

SinTable ==
    D(7481, 17573, 32026, 142, -59) :> D(19489, 2346, 31967, 142, -59) @@
    D(32201, 23901, 14172, 206, -56) :> D(3296, 4156, 2724, 206, -56) @@
    D(27605, 26359, 15271, 214, -56) :> D(22379, 13944, 2434, 214, -56) @@
    D(29902, 8746, 14722, 210, -55) :> D(20519, 1901, 31816, 208, -55) @@
    D(27605, 26359, 15271, 214, -55) :> D(22773, 22660, 29542, 212, -55) @@
    D(13660, 2771, 27563, 158, -54) :> D(71, 12316, 10007, 156, -54) @@
    D(7708, 28098, 11782, 208, -54) :> D(10613, 28194, 21493, 202, -54) @@
    D(13062, 22503, 27119, 212, -54) :> D(13602, 4061, 24619, 206, -54) @@
    D(2014, 3583, 30963, 199, -52) :> D(18893, 19251, 32448, 255, -53) @@
    D(11544, 10376, 2029, 201, -52) :> D(0, 0, 0, 128, -52) @@
    D(29855, 1016, 4975, 253, -52) :> D(4200, 3695, 3042, 235, -53)

CosTable ==
    D(27605, 26359, 15271, 214, -55) :> D(128, 25844, 13296, 250, -53) @@
    D(29902, 8746, 14722, 210, -54) :> D(13036, 9153, 22194, 234, -53)

SqrtTable ==
    D(25698, 18958, 23042, 159, -66) :> D(19489, 2346, 31967, 142, -59) @@
    D(28672, 24959, 486, 179, -59) :> D(22371, 13944, 2434, 214, -56) @@
    D(28685, 24959, 486, 179, -59) :> D(22379, 13944, 2434, 214, -56) @@
    D(8948, 12056, 7709, 180, -59) :> D(18851, 4077, 26305, 214, -56) @@
    D(8960, 12056, 7709, 180, -59) :> D(18858, 4077, 26305, 214, -56) @@
    D(18404, 8654, 23283, 189, -55) :> D(15465, 16171, 12344, 220, -54) @@
    D(30357, 7434, 23414, 195, -55) :> D(14629, 1286, 27421, 223, -54) @@
    D(568, 27629, 9388, 239, -55) :> D(26996, 27517, 16456, 247, -54) @@
    D(572, 27629, 9388, 239, -55) :> D(26998, 27517, 16456, 247, -54) @@
    D(24433, 25860, 5844, 196, -53) :> D(7336, 3933, 3339, 224, -53) @@
    D(24434, 25860, 5844, 196, -53) :> D(7336, 3933, 3339, 224, -53) @@
    D(8795, 14525, 2338, 207, -53) :> D(17481, 29667, 7850, 230, -53) @@
    D(11783, 6028, 18755, 208, -53) :> D(19560, 13944, 2377, 231, -53) @@
    D(20340, 17731, 6023, 253, -53) :> D(8631, 5708, 19268, 254, -53) @@
    D(64, 12922, 6648, 253, -53) :> D(26567, 10736, 19582, 254, -53) @@
    D(22469, 6133, 32129, 255, -53) :> D(18893, 19251, 32448, 255, -53) @@
    D(0, 0, 0, 128, -52) :> D(0, 0, 0, 128, -52) @@
    D(1, 0, 0, 128, -52) :> D(0, 0, 0, 128, -52)

Atan2Table ==
    <<D(19489, 2346, 31967, 142, -59), D(18893, 19251, 32448, 255, -53)>> :> D(7481, 17573, 32026, 142, -59) @@
    <<D(22379, 13944, 2434, 214, -56), D(26567, 10736, 19582, 254, -53)>> :> D(27604, 26359, 15271, 214, -56) @@
    <<D(18851, 4077, 26305, 214, -56), D(8631, 5708, 19268, 254, -53)>> :> D(3402, 14466, 6506, 215, -56) @@
    <<D(15465, 16171, 12344, 220, -54), D(19560, 13944, 2377, 231, -53)>> :> D(2021, 5412, 26882, 227, -54) @@
    <<D(14629, 1286, 27421, 223, -54), D(17481, 29667, 7850, 230, -53)>> :> D(9672, 3260, 21648, 231, -54) @@
    <<D(26998, 27517, 16456, 247, -54), D(7336, 3933, 3339, 224, -53)>> :> D(28926, 27179, 5296, 129, -53) @@
    <<D(7336, 3933, 3339, 224, -53), D(26996, 27517, 16456, 247, -54)>> :> D(13466, 29554, 15764, 136, -52) @@
    <<D(8631, 5708, 19268, 254, -53), D(18858, 4077, 26305, 214, -56)>> :> D(7235, 21760, 20054, 187, -52) @@
    <<D(26567, 10736, 19582, 254, -53), D(22371, 13944, 2434, 214, -56)>> :> D(28252, 27160, 21554, 187, -52)

\* Math.sin: odd, sin(0) = 0
MathSin(x) ==
    IF x.nan THEN NaN
    ELSE IF IsZero(x) THEN Zero
    ELSE IF x.neg THEN fneg(SinTable[fabs(x)]) ELSE SinTable[x]

\* Math.cos: even, cos(0) = 1
MathCos(x) ==
    IF x.nan THEN NaN
    ELSE IF IsZero(x) THEN One
    ELSE CosTable[fabs(x)]

\* Math.sqrt: NaN below zero
MathSqrt(x) ==
    IF x.nan THEN NaN
    ELSE IF IsZero(x) THEN Zero
    ELSE IF x.neg THEN NaN
    ELSE SqrtTable[x]

\* Math.atan2(y, x) for y >= 0, x >= 0: atan2(0, x) = 0 and atan2(y, 0) = PI / 2
MathAtan2(y, x) ==
    IF y.nan \/ x.nan THEN NaN
    ELSE IF IsZero(y) THEN Zero
    ELSE IF IsZero(x) THEN fdivInt(PI, 2)
    ELSE Atan2Table[<<y, x>>]

(***************************************************************************)
(* calculateStats                                                          *)
(***************************************************************************)
R == 6371

\* faulty variant: R + c for R * c
haversine_plus(lat1, lon1, lat2, lon2) ==
    LET dLat == fdivInt(fmul(fsub(lat2, lat1), PI), 180)
        dLon == fdivInt(fmul(fsub(lon2, lon1), PI), 180)
        sLat == MathSin(fdivInt(dLat, 2))
        sLon == MathSin(fdivInt(dLon, 2))
        a == fadd(fmul(sLat, sLat),
                  fmul(fmul(fmul(MathCos(fdivInt(fmul(lat1, PI), 180)),
                                 MathCos(fdivInt(fmul(lat2, PI), 180))),
                            sLon),
                       sLon))
        c == fmul(FromInt(2), MathAtan2(MathSqrt(a), MathSqrt(fsub(One, a))))
    IN  fadd(FromInt(R), c)

\* faulty variant: c is the half angle, the factor 2 is missing
haversine_halfAngle(lat1, lon1, lat2, lon2) ==
    LET dLat == fdivInt(fmul(fsub(lat2, lat1), PI), 180)
        dLon == fdivInt(fmul(fsub(lon2, lon1), PI), 180)
        sLat == MathSin(fdivInt(dLat, 2))
        sLon == MathSin(fdivInt(dLon, 2))
        a == fadd(fmul(sLat, sLat),
                  fmul(fmul(fmul(MathCos(fdivInt(fmul(lat1, PI), 180)),
                                 MathCos(fdivInt(fmul(lat2, PI), 180))),
                            sLon),
                       sLon))
        c == MathAtan2(MathSqrt(a), MathSqrt(fsub(One, a)))
    IN  fmul(FromInt(R), c)

\* one iteration of the distance loop: the great-circle distance in km
\* between (lat1, lon1) and (lat2, lon2)
haversine(lat1, lon1, lat2, lon2) ==
    LET dLat == fdivInt(fmul(fsub(lat2, lat1), PI), 180)
        dLon == fdivInt(fmul(fsub(lon2, lon1), PI), 180)
        sLat == MathSin(fdivInt(dLat, 2))
        sLon == MathSin(fdivInt(dLon, 2))
        a == fadd(fmul(sLat, sLat),
                  fmul(fmul(fmul(MathCos(fdivInt(fmul(lat1, PI), 180)),
                                 MathCos(fdivInt(fmul(lat2, PI), 180))),
                            sLon),
                       sLon))
        c == fmul(FromInt(2), MathAtan2(MathSqrt(a), MathSqrt(fsub(One, a))))
    IN  fmul(FromInt(R), c)

\* faulty variant: the first speed is never added
RECURSIVE reduceSum_fromSecond(_, _)
reduceSum_fromSecond(speeds, acc) ==
    IF Len(speeds) <= 1 THEN acc
    ELSE reduceSum_fromSecond(Tail(speeds), fadd(acc, speeds[2]))

\* speeds.reduce((a, b) => a + b, 0), from the accumulator acc
RECURSIVE reduceSum(_, _)
reduceSum(speeds, acc) ==
    IF speeds = <<>> THEN acc ELSE reduceSum(Tail(speeds), fadd(acc, Head(speeds)))

\* faulty variant: speeds above 50 km/h are thrown out as outliers
MathMax_noOutliers(speeds) ==
    LET kept == {speeds[i] : i \in {j \in 1..Len(speeds) : fle(speeds[j], FromInt(50))}}
    IN  IF kept = {} THEN Zero ELSE CHOOSE m \in kept : \A x \in kept : fle(x, m)

\* Math.max(...speeds) for a non-empty speeds
RECURSIVE MathMax(_)
MathMax(speeds) ==
    IF Len(speeds) = 1 THEN speeds[1]
    ELSE LET m == MathMax(Tail(speeds))
         IN  IF speeds[1].nan \/ m.nan THEN NaN
             ELSE IF fle(m, speeds[1]) THEN speeds[1] ELSE m

\* the coordinates the model's rows are taken at
Points == {
    <<Zero, Zero>>, <<Zero, One>>,
    <<fneg(Dec(235505, 4)), fneg(Dec(466333, 4))>>,
    <<FromInt(12), Zero>>, <<fneg(FromInt(12)), FromInt(180)>> }

\* haversine over Points, computed once
distanceKm == [p \in Points \X Points |-> haversine(p[1][1], p[1][2], p[2][1], p[2][2])]

\* faulty variant: the loop begins at the first record, whose predecessor
\* is undefined, and the arithmetic on undefined gives NaN
distanceLoop_fromFirst(records, i, totalDistance) ==
    IF Len(records) = 0 THEN totalDistance ELSE NaN

\* faulty variant: the loop stops one record short
RECURSIVE distanceLoop_short(_, _, _)
distanceLoop_short(records, i, totalDistance) ==
    IF i > Len(records) - 1 THEN totalDistance
    ELSE distanceLoop_short(records, i + 1,
             fadd(totalDistance,
                  distanceKm[<<records[i].latitude, records[i].longitude>>,
                             <<records[i - 1].latitude, records[i - 1].longitude>>]))

\* the for loop from index i on (i counts from 1 here, from 0 in the code)
RECURSIVE distanceLoop(_, _, _)
distanceLoop(records, i, totalDistance) ==
    IF i > Len(records) THEN totalDistance
    ELSE LET lat1 == records[i].latitude
             lon1 == records[i].longitude
             lat2 == records[i - 1].latitude
             lon2 == records[i - 1].longitude
         IN  distanceLoop(records, i + 1,
                          fadd(totalDistance, distanceKm[<<lat1, lon1>>, <<lat2, lon2>>]))

\* faulty variant: the guard for the empty batch left out, so that the
\* average is 0 / 0 (and the maximum, Math.max(), not a number of the model)
calculateStats_noGuard(records) ==
    LET speeds == [i \in 1..Len(records) |-> records[i].speed]
    IN  [totalRecords |-> Len(records),
         avgSpeed |-> fdivInt(reduceSum(speeds, Zero), Len(speeds)),
         maxSpeed |-> IF speeds = <<>> THEN NaN ELSE MathMax(speeds),
         totalDistance |-> distanceLoop(records, 2, Zero)]

\* the value calculateStats hands to setStats
calculateStats(records) ==
    IF Len(records) = 0
    THEN [totalRecords |-> 0, avgSpeed |-> Zero, maxSpeed |-> Zero, totalDistance |-> Zero]
    ELSE LET speeds == [i \in 1..Len(records) |-> records[i].speed]
             avgSpeed == fdivInt(reduceSum(speeds, Zero), Len(speeds))
             maxSpeed == MathMax(speeds)
             totalDistance == distanceLoop(records, 2, Zero)
         IN  [totalRecords |-> Len(records), avgSpeed |-> avgSpeed,
              maxSpeed |-> maxSpeed, totalDistance |-> totalDistance]

(***************************************************************************)
(* The database the page reads, and time.  Instants are whole hours, in    *)
(* UTC; a date is a day number; tz is the browser's offset from UTC.       *)
(***************************************************************************)
HoursPerDay == 24
Week == 7
MaxDay == 1
MaxPending == 2
MaxLen == 4

Row(v, lat, lon, speed, t) ==
    [vehicle_id |-> v, latitude |-> lat, longitude |-> lon, speed |-> speed, timestamp |-> t]

\* null, and the empty text of an input
null == "null"

\* a column that holds a number or a time: NULL, or the value
NULL == <<>>
Value(x) == <<x>>

\* a row of vehicles that has no location yet
Vehicle(id, u, plate, status) ==
    [id |-> id, user_id |-> u, license_plate |-> plate, status |-> status,
     last_location_lat |-> NULL, last_location_lng |-> NULL, last_seen |-> NULL]

\* vehicles, in license_plate order; a license_plate is modelled by its rank
\* in the order of the plates
vehiclesTable == <<
    [Vehicle("v1", "u1", 1, "active") EXCEPT
        !.last_location_lat = Value(FromInt(12)), !.last_location_lng = Value(Zero),
        !.last_seen = Value(20)],
    Vehicle("v2", "u1", 2, "maintenance"),
    Vehicle("v3", "u2", 3, "inactive") >>

trackingRows == {
    Row("v1", Zero, Zero, FromInt(10), 2),
    Row("v1", Zero, One, FromInt(20), 10),
    Row("v1", FromInt(12), Zero, FromInt(30), 20),
    Row("v2", fneg(Dec(235505, 4)), fneg(Dec(466333, 4)), FromInt(50), 5),
    Row("v2", fneg(Dec(235505, 4)), fneg(Dec(466333, 4)), FromInt(60), 6),
    Row("v3", fneg(FromInt(12)), FromInt(180), Dec(251, 1), 8) }

\* the browser's time zone: Brasilia, three hours behind UTC
TimeZones == {-3}

Dates == 0..MaxDay

\* new Date('YYYY-MM-DD'): midnight UTC of the date
ParseDate(d) == d * HoursPerDay

\* the local calendar day an instant falls on
LocalDay(t, z) == (t + z) \div HoursPerDay

\* setHours(0, 0, 0, 0) and setHours(23, 59, 59, 999): first and last
\* instant of the local day
StartOfDay(t, z) == LocalDay(t, z) * HoursPerDay - z
EndOfDay(t, z) == LocalDay(t, z) * HoursPerDay - z + HoursPerDay - 1

\* .order('timestamp', { ascending: false })
RECURSIVE orderDesc(_)
orderDesc(rows) ==
    IF rows = {} THEN <<>>
    ELSE LET r == CHOOSE x \in rows : \A y \in rows : y.timestamp <= x.timestamp
         IN  <<r>> \o orderDesc(rows \ {r})

VARIABLES
    tz,               \* offset of local time from UTC, hours
    vehicles_table,   \* the table vehicles
    tracking_history, \* the table tracking_history
    alerts_table,     \* the table alerts
    response,         \* the store's answer to the last statement
    user,             \* the signed-in user, auth.uid() of the session
    authLoading,      \* useAuth().loading
    activeView,       \* AppContent
    pendingFetch,     \* the fetches page views have started, awaiting their response
    vehicles, selectedVehicle, history, dateRange, loading, stats,
    pendingVehicles,  \* fetchVehicles awaits its response
    pendingHistory,   \* the fetchHistory calls awaiting their response
    errorLogged,      \* console.error was called
    showAddModal, editingVehicle,      \* VehiclesPage
    formData, modalLoading, modalError, \* AddVehicleModal: formData, loading, error
    pendingSave,      \* the handleSubmit of the modal shown that awaits the store's answer
    orphanSaves,      \* handleSubmit calls of modals closed since, still awaiting
    onSuccessCalls,   \* how many times AddVehicleModal has called onSuccess
    pageVehicles,     \* VehiclesPage: vehicles
    pageLoading,      \* VehiclesPage: loading
    deletingVehicle,  \* VehiclesPage: deletingVehicle
    pendingDelete,    \* the handleDelete calls awaiting the store's answer
    alerts,           \* AlertsPage: alerts
    alertsLoading,    \* AlertsPage: loading
    pendingAlert,     \* the markAsRead and deleteAlert calls awaiting the store's answer
    trackingVehicles, \* TrackingPage: vehicles
    trackingSelected, \* TrackingPage: selectedVehicle, NULL or Value(vehicle)
    trackingData,     \* TrackingPage: trackingData
    trackingLoading,  \* TrackingPage: loading
    pendingTracking,  \* the fetches of TrackingPage's effects, awaiting their response
    pendingSimulate,  \* the simulateTracking calls, each at one of its awaits
    simulateCalls     \* how many times simulateTracking has been called

storeVars == <<vehicles_table, tracking_history, alerts_table, response>>
appVars == <<authLoading, activeView, pendingFetch>>
modalVars == <<showAddModal, editingVehicle, formData, modalLoading, modalError,
               pendingSave, orphanSaves, onSuccessCalls>>

listVars == <<pageVehicles, pageLoading, deletingVehicle, pendingDelete>>
alertVars == <<alerts, alertsLoading, pendingAlert>>
trackVars == <<trackingVehicles, trackingSelected, trackingData, trackingLoading,
               pendingTracking, pendingSimulate, simulateCalls>>
pagesVars == <<tz, listVars, alertVars, trackVars>>

vars == <<storeVars, appVars, modalVars, pagesVars, user, vehicles, selectedVehicle, history,
          dateRange, loading, stats, pendingVehicles, pendingHistory, errorLogged>>

\* "Users can view tracking history for own vehicles": vehicle v is a row
\* of vehicles whose user_id is u
ownVehicle(u, v) == \E r \in vehicles_table : r.id = v /\ r.user_id = u

\* the tracking_history query of fetchHistory, asked by user u
selectHistory(table, u, req) ==
    orderDesc({r \in table : /\ ownVehicle(u, r.vehicle_id)
                             /\ r.vehicle_id = req.vehicle_id
                             /\ r.timestamp >= req.from
                             /\ r.timestamp <= req.to})

\* the vehicles query of fetchVehicles
RECURSIVE orderByPlate(_)
orderByPlate(rows) ==
    IF rows = {} THEN <<>>
    ELSE LET r == CHOOSE x \in rows : \A y \in rows : x.license_plate <= y.license_plate
         IN  <<r>> \o orderByPlate(rows \ {r})

selectVehicles(u) ==
    LET mine == orderByPlate({v \in vehicles_table : v.user_id = u})
    IN  [i \in 1..Len(mine) |-> mine[i].id]

\* fetchHistory up to its await: the request it sends
request(v, range) ==
    [vehicle_id |-> v,
     from |-> StartOfDay(ParseDate(range.start), tz),
     to |-> EndOfDay(ParseDate(range.end), tz)]

\* the effect on [selectedVehicle, dateRange]
historyEffect(v, range) ==
    IF v # "" THEN pendingHistory \cup {request(v, range)} ELSE pendingHistory

\* alerts; vehicle_id may be null
alertsRows == {
    [id |-> "a1", vehicle_id |-> "v1", user_id |-> "u1", is_read |-> FALSE],
    [id |-> "a2", vehicle_id |-> "v3", user_id |-> "u2", is_read |-> FALSE],
    [id |-> "a3", vehicle_id |-> null, user_id |-> "u2", is_read |-> FALSE],
    [id |-> "a5", vehicle_id |-> "v2", user_id |-> "u1", is_read |-> FALSE],
    [id |-> "a6", vehicle_id |-> null, user_id |-> "u1", is_read |-> TRUE] }

\* the store before the first statement
InitStore ==
    /\ vehicles_table = {vehiclesTable[i] : i \in 1..Len(vehiclesTable)}
    /\ tracking_history = trackingRows
    /\ alerts_table = alertsRows
    /\ response = [error |-> null, data |-> {}]

\* AppContent shows the view of HistoryPage to a signed-in user
HistoryMounted ==
    /\ authLoading = FALSE
    /\ activeView = "history"
    /\ pendingFetch = {}

\* the other pages as useState initialises them
PagesInitial ==
    /\ pageVehicles = {}
    /\ pageLoading = TRUE
    /\ deletingVehicle = null
    /\ pendingDelete = {}
    /\ alerts = {}
    /\ alertsLoading = TRUE
    /\ pendingAlert = {}
    /\ trackingVehicles = <<>>
    /\ trackingSelected = NULL
    /\ trackingData = <<>>
    /\ trackingLoading = TRUE
    /\ pendingTracking = {}
    /\ pendingSimulate = {}
    /\ simulateCalls = 0

\* VehiclesPage and AddVehicleModal as useState initialises them
ModalClosed ==
    /\ showAddModal = FALSE
    /\ editingVehicle = null
    /\ formData = [license_plate |-> 0, status |-> "active"]
    /\ modalLoading = FALSE
    /\ modalError = null
    /\ pendingSave = <<>>
    /\ orphanSaves = <<>>
    /\ onSuccessCalls = 0

Init ==
    /\ tz \in TimeZones /\ PagesInitial
    /\ InitStore /\ HistoryMounted /\ ModalClosed
    /\ user = "u1"
    /\ vehicles = <<>>
    /\ selectedVehicle = ""
    /\ history = <<>>
    /\ dateRange = [start |-> MaxDay - Week, end |-> MaxDay]
    /\ loading = TRUE
    /\ stats = [totalRecords |-> 0, avgSpeed |-> Zero, maxSpeed |-> Zero, totalDistance |-> Zero]
    /\ pendingVehicles = TRUE
    /\ pendingHistory = {}
    /\ errorLogged = FALSE

\* fetchVehicles after its await, no error
FetchVehiclesOk ==
    /\ pendingVehicles
    /\ pendingVehicles' = FALSE
    /\ LET vehiclesList == selectVehicles(user)
       IN  /\ vehicles' = vehiclesList
           /\ selectedVehicle' = IF Len(vehiclesList) > 0 THEN vehiclesList[1] ELSE ""
           /\ pendingHistory' = historyEffect(selectedVehicle', dateRange)
    /\ loading' = FALSE
    /\ UNCHANGED <<storeVars, appVars, modalVars, pagesVars, user, history, dateRange, stats, errorLogged>>

\* fetchVehicles after its await, error
FetchVehiclesError ==
    /\ pendingVehicles
    /\ pendingVehicles' = FALSE
    /\ errorLogged' = TRUE
    /\ loading' = FALSE
    /\ UNCHANGED <<storeVars, appVars, modalVars, pagesVars, user, vehicles, selectedVehicle, history,
                   dateRange, stats, pendingHistory>>

\* the controls are rendered
Controls == ~loading /\ Len(vehicles) > 0

\* onChange of the vehicle select
SelectVehicle(v) ==
    /\ Controls
    /\ v # selectedVehicle
    /\ Cardinality(pendingHistory) < MaxPending
    /\ selectedVehicle' = v
    /\ pendingHistory' = historyEffect(v, dateRange)
    /\ UNCHANGED <<storeVars, appVars, modalVars, pagesVars, user, vehicles, history, dateRange, loading,
                   stats, pendingVehicles, errorLogged>>

\* onChange of the start date input
SetStart(d) ==
    /\ Controls
    /\ d # dateRange.start
    /\ Cardinality(pendingHistory) < MaxPending
    /\ dateRange' = [dateRange EXCEPT !.start = d]
    /\ pendingHistory' = historyEffect(selectedVehicle, dateRange')
    /\ UNCHANGED <<storeVars, appVars, modalVars, pagesVars, user, vehicles, selectedVehicle, history, loading,
                   stats, pendingVehicles, errorLogged>>

\* onChange of the end date input
SetEnd(d) ==
    /\ Controls
    /\ d # dateRange.end
    /\ Cardinality(pendingHistory) < MaxPending
    /\ dateRange' = [dateRange EXCEPT !.end = d]
    /\ pendingHistory' = historyEffect(selectedVehicle, dateRange')
    /\ UNCHANGED <<storeVars, appVars, modalVars, pagesVars, user, vehicles, selectedVehicle, history, loading,
                   stats, pendingVehicles, errorLogged>>

\* faulty variant: the new batch is added onto the statistics shown
FetchHistoryOk_accumulate(req, records) ==
    /\ req \in pendingHistory
    /\ pendingHistory' = pendingHistory \ {req}
    /\ history' = records
    /\ stats' = LET new == calculateStats(records)
                IN  [totalRecords |-> stats.totalRecords + new.totalRecords,
                     avgSpeed |-> new.avgSpeed,
                     maxSpeed |-> IF fle(stats.maxSpeed, new.maxSpeed) THEN new.maxSpeed
                                  ELSE stats.maxSpeed,
                     totalDistance |-> fadd(stats.totalDistance, new.totalDistance)]
    /\ UNCHANGED <<storeVars, appVars, modalVars, pagesVars, user, vehicles, selectedVehicle, dateRange,
                   loading, pendingVehicles, errorLogged>>

\* faulty variant: the statistics are computed from the history state the
\* closure holds, not from the records of the response
FetchHistoryOk_staleStats(req, records) ==
    /\ req \in pendingHistory
    /\ pendingHistory' = pendingHistory \ {req}
    /\ history' = records
    /\ stats' = calculateStats(history)
    /\ UNCHANGED <<storeVars, appVars, modalVars, pagesVars, user, vehicles, selectedVehicle, dateRange,
                   loading, pendingVehicles, errorLogged>>

\* faulty variant: calculateStats sorts its argument in place, oldest first,
\* and the array it sorts is the one setHistory was given
FetchHistoryOk_sortInPlace(req, records) ==
    /\ req \in pendingHistory
    /\ pendingHistory' = pendingHistory \ {req}
    /\ history' = [i \in 1..Len(records) |-> records[Len(records) + 1 - i]]
    /\ stats' = calculateStats(history')
    /\ UNCHANGED <<storeVars, appVars, modalVars, pagesVars, user, vehicles, selectedVehicle, dateRange,
                   loading, pendingVehicles, errorLogged>>

\* fetchHistory after its await, no error: the response carries records
FetchHistoryOk(req, records) ==
    /\ req \in pendingHistory
    /\ pendingHistory' = pendingHistory \ {req}
    /\ history' = records
    /\ stats' = calculateStats(records)
    /\ UNCHANGED <<storeVars, appVars, modalVars, pagesVars, user, vehicles, selectedVehicle, dateRange,
                   loading, pendingVehicles, errorLogged>>

\* fetchHistory after its await, error
FetchHistoryError(req) ==
    /\ req \in pendingHistory
    /\ pendingHistory' = pendingHistory \ {req}
    /\ errorLogged' = TRUE
    /\ UNCHANGED <<storeVars, appVars, modalVars, pagesVars, user, vehicles, selectedVehicle, history,
                   dateRange, loading, stats, pendingVehicles>>

Next ==
    \/ FetchVehiclesOk
    \/ FetchVehiclesError
    \/ \E v \in {vehicles[i] : i \in 1..Len(vehicles)} : SelectVehicle(v)
    \/ \E d \in Dates : SetStart(d)
    \/ \E d \in Dates : SetEnd(d)
    \/ \E req \in pendingHistory : FetchHistoryOk(req, selectHistory(tracking_history, user, req))
    \/ \E req \in pendingHistory : FetchHistoryError(req)

Spec == Init /\ [][Next]_vars

(***************************************************************************)
(* The store: the tables vehicles, tracking_history and alerts with their  *)
(* constraints and row-level security policies.  A statement is issued by  *)
(* the session of uid (null: no session).  The operators give the rows a   *)
(* statement returns, inserts, updates or deletes, or the error raised.    *)
(***************************************************************************)
Users == {"u1", "u2"}
VehicleIds == {"v1", "v3", "v4"}
AlertIds == {"a1", "a3", "a4"}
Plates == 1..(Len(vehiclesTable) + 1)

ok(rows) == [error |-> null, data |-> rows]
failed(e) == [error |-> e, data |-> {}]

\* the payload written over the columns it names
assign(row, data) == [c \in DOMAIN row |-> IF c \in DOMAIN data THEN data[c] ELSE row[c]]

\* faulty variant: UNIQUE (user_id, license_plate)
uniquePlates_perUser(rows) ==
    \A r1, r2 \in rows :
        (r1.license_plate = r2.license_plate /\ r1.user_id = r2.user_id) => r1 = r2

\* license_plate text UNIQUE NOT NULL
uniquePlates(rows) ==
    \A r1, r2 \in rows : r1.license_plate = r2.license_plate => r1 = r2

\* the values the form offers for status
Statuses == {"active", "inactive", "maintenance"}

\* CHECK (status IN ('active', 'inactive', 'maintenance')) on a column that
\* may be NULL: the constraint is satisfied when its expression is true or
\* unknown, and it is unknown for NULL
statusCheck(rows) == \A r \in rows : r.status = null \/ r.status \in Statuses

\* vehicle_id uuid REFERENCES vehicles(id)
references(rows, vs) ==
    \A r \in rows : r.vehicle_id # null => \E v \in vs : v.id = r.vehicle_id

\* faulty variant: the foreign keys have no ON DELETE CASCADE
cascade_none(rows, deleted) == rows

\* ON DELETE CASCADE: the rows that go with the vehicles deleted
cascade(rows, deleted) == {r \in rows : \A v \in deleted : r.vehicle_id # v.id}

\* SELECT on vehicles, with the client's .eq('user_id', u) when u is not null
vehiclesSelect(uid, u) ==
    ok({r \in vehicles_table : uid = r.user_id /\ (u # null => r.user_id = u)})

\* INSERT on vehicles: the policy's WITH CHECK, then the constraints
vehiclesInsert(uid, row) ==
    IF uid # row.user_id THEN failed("rls")
    ELSE IF ~statusCheck({row}) THEN failed("check")
    ELSE IF ~uniquePlates(vehicles_table \cup {row}) THEN failed("unique")
    ELSE ok({row})

\* UPDATE on vehicles of the rows with id = id
vehiclesUpdate(uid, id, data) ==
    LET old == {r \in vehicles_table : uid = r.user_id /\ r.id = id}
        new == {assign(r, data) : r \in old}
    IN  IF \E r \in new : uid # r.user_id THEN failed("rls")
        ELSE IF ~statusCheck(new) THEN failed("check")
        ELSE IF ~uniquePlates((vehicles_table \ old) \cup new) THEN failed("unique")
        ELSE [error |-> null, data |-> new, old |-> old]

\* faulty variant: no policy, the rows are those of the client's filter
vehiclesDelete_byIdOnly(uid, id) ==
    ok({r \in vehicles_table : r.id = id})

\* DELETE on vehicles of the rows with id = id
vehiclesDelete(uid, id) ==
    ok({r \in vehicles_table : uid = r.user_id /\ r.id = id})

\* INSERT on tracking_history
trackingInsert(uid, row) ==
    IF ~ownVehicle(uid, row.vehicle_id) THEN failed("rls")
    ELSE ok({row})

\* UPDATE and DELETE on tracking_history: no policy grants them, no row is
\* visible to the statement
trackingWrite(uid, v) ==
    ok({r \in tracking_history : FALSE /\ r.vehicle_id = v})

\* SELECT on alerts, with the client's .eq('user_id', u)
alertsSelect(uid, u) ==
    ok({r \in alerts_table : uid = r.user_id /\ r.user_id = u})

\* INSERT on alerts
alertsInsert(uid, row) ==
    IF uid # row.user_id THEN failed("rls")
    ELSE IF ~references({row}, vehicles_table) THEN failed("fk")
    ELSE ok({row})

\* UPDATE on alerts of the rows with id = id
alertsUpdate(uid, id, data) ==
    LET old == {r \in alerts_table : uid = r.user_id /\ r.id = id}
        new == {assign(r, data) : r \in old}
    IN  IF \E r \in new : uid # r.user_id THEN failed("rls")
        ELSE IF ~references(new, vehicles_table) THEN failed("fk")
        ELSE [error |-> null, data |-> new, old |-> old]

\* DELETE on alerts of the rows with id = id
alertsDelete(uid, id) ==
    ok({r \in alerts_table : uid = r.user_id /\ r.id = id})

(***************************************************************************)
(* Any client of the store: the session of user issues any statement on    *)
(* vehicles, tracking_history and alerts, with any id and any payload.     *)
(***************************************************************************)
\* { data, error } as supabase-js returns it: data are the rows of a select,
\* and nothing for a statement that writes (no .select() follows it)
answer(op, r) == [error |-> r.error, data |-> IF op = "select" THEN r.data ELSE {}]

\* gen_random_uuid(): an id no row of the table has
newId(ids, rows) == CHOOSE id \in ids : \A r \in rows : r.id # id
NewVehicleIds == {"v4"}
NewAlertIds == {"a4"}

\* HistoryPage as useState initialises it, no effect run yet
HistoryInitial ==
    /\ tz \in TimeZones /\ PagesInitial
    /\ vehicles = <<>> /\ selectedVehicle = "" /\ history = <<>>
    /\ dateRange = [start |-> MaxDay - Week, end |-> MaxDay]
    /\ loading = TRUE
    /\ stats = [totalRecords |-> 0, avgSpeed |-> Zero, maxSpeed |-> Zero, totalDistance |-> Zero]
    /\ pendingVehicles = FALSE /\ pendingHistory = {} /\ errorLogged = FALSE

\* a store with one vehicle of each user, the session of u1
InitStoreSpec ==
    /\ vehicles_table = {vehiclesTable[1], vehiclesTable[3]}
    /\ tracking_history = {r \in trackingRows : r.vehicle_id \in {"v1", "v3"}}
    /\ alerts_table = {r \in alertsRows : r.id \in {"a1", "a3"}}
    /\ response = [error |-> null, data |-> {}]
    /\ user = "u1"
    /\ authLoading = FALSE /\ activeView = "dashboard" /\ pendingFetch = {}
    /\ HistoryInitial /\ ModalClosed

\* the point simulateTracking inserts at Math.random() = 0.5, and the hour
\* the store's now() gives it
NewPointHour == 30
newPoint(v) == Row(v, fneg(Dec(235505, 4)), fneg(Dec(466333, 4)), FromInt(60), NewPointHour)

otherVars == <<appVars, modalVars, pagesVars, vehicles, selectedVehicle, history, dateRange,
               loading, stats, pendingVehicles, pendingHistory, errorLogged>>

\* another user signs in, or the user signs out
SwitchSession(u) ==
    /\ u # user
    /\ user' = u
    /\ response' = [error |-> null, data |-> {}]
    /\ UNCHANGED <<vehicles_table, tracking_history, alerts_table, otherVars>>

\* supabase.from('vehicles').select('*'), with .eq('user_id', u) when u is
\* not null
SelectVehicles(u) ==
    /\ response' = answer("select",
                          vehiclesSelect(user, u))
    /\ UNCHANGED <<vehicles_table, tracking_history, alerts_table, user, otherVars>>

\* supabase.from('vehicles').insert(vehicleData)
InsertVehicle(u, plate, status) ==
    /\ \E id \in NewVehicleIds : \A r \in vehicles_table : r.id # id
    /\ LET row == Vehicle(newId(NewVehicleIds, vehicles_table), u, plate, status)
           r == vehiclesInsert(user, row)
       IN  /\ vehicles_table' = vehicles_table \cup r.data
           /\ response' = answer("insert", r)
    /\ UNCHANGED <<tracking_history, alerts_table, user, otherVars>>

\* supabase.from('vehicles').update(vehicleData).eq('id', id)
UpdateVehicle(id, data) ==
    /\ LET r == vehiclesUpdate(user, id, data)
       IN  /\ vehicles_table' = IF r.error = null
                                THEN (vehicles_table \ r.old) \cup r.data
                                ELSE vehicles_table
           /\ response' = answer("update", r)
    /\ UNCHANGED <<tracking_history, alerts_table, user, otherVars>>

\* supabase.from('vehicles').delete().eq('id', id)
DeleteVehicle(id) ==
    /\ LET r == vehiclesDelete(user, id)
       IN  /\ vehicles_table' = vehicles_table \ r.data
           /\ tracking_history' = cascade(tracking_history, r.data)
           /\ alerts_table' = cascade(alerts_table, r.data)
           /\ response' = answer("delete", r)
    /\ UNCHANGED <<user, otherVars>>

\* supabase.from('tracking_history').insert(newPoint)
InsertTracking(v) ==
    /\ LET r == trackingInsert(user, newPoint(v))
       IN  /\ tracking_history' = tracking_history \cup r.data
           /\ response' = answer("insert", r)
    /\ UNCHANGED <<vehicles_table, alerts_table, user, otherVars>>

\* an update of the speed of the rows of vehicle v
UpdateTracking(v) ==
    /\ LET r == trackingWrite(user, v)
       IN  /\ tracking_history' = (tracking_history \ r.data)
                                      \cup {[x EXCEPT !.speed = Zero] : x \in r.data}
           /\ response' = answer("update", r)
    /\ UNCHANGED <<vehicles_table, alerts_table, user, otherVars>>

\* faulty variant: a policy lets the owner of the vehicle delete its points
DeleteTracking_byOwner(v) ==
    /\ LET r == ok({x \in tracking_history :
                       ownVehicle(user, x.vehicle_id) /\ x.vehicle_id = v})
       IN  /\ tracking_history' = tracking_history \ r.data
           /\ response' = answer("delete", r)
    /\ UNCHANGED <<vehicles_table, alerts_table, user, otherVars>>

\* a delete of the rows of vehicle v
DeleteTracking(v) ==
    /\ LET r == trackingWrite(user, v)
       IN  /\ tracking_history' = tracking_history \ r.data
           /\ response' = answer("delete", r)
    /\ UNCHANGED <<vehicles_table, alerts_table, user, otherVars>>

\* supabase.from('alerts').insert(alert)
InsertAlert(u, v) ==
    /\ \E id \in NewAlertIds : \A r \in alerts_table : r.id # id
    /\ LET row == [id |-> newId(NewAlertIds, alerts_table), vehicle_id |-> v, user_id |-> u,
                   is_read |-> FALSE]
           r == alertsInsert(user, row)
       IN  /\ alerts_table' = alerts_table \cup r.data
           /\ response' = answer("insert", r)
    /\ UNCHANGED <<vehicles_table, tracking_history, user, otherVars>>

\* supabase.from('alerts').update(data).eq('id', id)
UpdateAlert(id, data) ==
    /\ LET r == alertsUpdate(user, id, data)
       IN  /\ alerts_table' = IF r.error = null
                              THEN (alerts_table \ r.old) \cup r.data
                              ELSE alerts_table
           /\ response' = answer("update", r)
    /\ UNCHANGED <<vehicles_table, tracking_history, user, otherVars>>

\* supabase.from('alerts').delete().eq('id', id)
DeleteAlert(id) ==
    /\ LET r == alertsDelete(user, id)
       IN  /\ alerts_table' = alerts_table \ r.data
           /\ response' = answer("delete", r)
    /\ UNCHANGED <<vehicles_table, tracking_history, user, otherVars>>

NextStore ==
    \/ \E u \in Users \cup {null} : SwitchSession(u)
    \/ \E u \in Users \cup {null} : SelectVehicles(u)
    \/ \E u \in Users, plate \in Plates : InsertVehicle(u, plate, "active")
    \/ \E id \in VehicleIds, u \in Users, plate \in Plates :
           UpdateVehicle(id, [user_id |-> u, license_plate |-> plate])
    \/ \E id \in VehicleIds : DeleteVehicle(id)
    \/ \E v \in VehicleIds : InsertTracking(v)
    \/ \E v \in VehicleIds : UpdateTracking(v)
    \/ \E v \in VehicleIds : DeleteTracking(v)

SpecStore == InitStoreSpec /\ [][NextStore]_vars

\* the statements that create and remove the rows other rows refer to
NextCascade ==
    \/ \E u \in Users : SwitchSession(u)
    \/ \E u \in Users : InsertVehicle(u, Len(vehiclesTable) + 1, "active")
    \/ \E id \in VehicleIds : DeleteVehicle(id)
    \/ \E v \in VehicleIds : InsertTracking(v)
    \/ \E u \in Users, v \in VehicleIds \cup {null} : InsertAlert(u, v)
    \/ \E id \in AlertIds, v \in VehicleIds \cup {null} : UpdateAlert(id, [vehicle_id |-> v])
    \/ \E id \in AlertIds : DeleteAlert(id)

SpecCascade == InitStoreSpec /\ [][NextCascade]_vars

(***************************************************************************)
(* VehiclesPage with AddVehicleModal.  The modal's state lives while       *)
(* showAddModal holds; a handleSubmit whose modal has been closed goes on  *)
(* to its end, and its setError and setLoading then set nothing.           *)
(***************************************************************************)
MaxSaves == 2
ModalVehicleIds == {"v4", "v5", "v6", "v7"}
NetworkMessages == {"Failed to fetch", ""}
DefaultMessage == "Ocorreu um erro ao salvar o veiculo"

\* err.message || 'Ocorreu um erro ao salvar o veiculo'
errorMessage(message) == IF message = "" THEN DefaultMessage ELSE message

\* the state useState gives a modal that mounts
unmounted ==
    /\ formData' = [license_plate |-> 0, status |-> "active"]
    /\ modalLoading' = FALSE
    /\ modalError' = null

pageVars == <<authLoading, activeView, pagesVars, user, vehicles, selectedVehicle, history,
              dateRange, loading, stats, pendingVehicles, pendingHistory, errorLogged>>

\* the button Adicionar Veiculo
OpenAdd ==
    /\ ~showAddModal
    /\ editingVehicle' = null
    /\ showAddModal' = TRUE
    /\ UNCHANGED <<formData, modalLoading, modalError, pendingSave, orphanSaves,
                   onSuccessCalls, storeVars, pendingFetch, pageVars>>

\* the button Editar of a vehicle of the list; useEffect fills the form
OpenEdit(vehicle) ==
    /\ ~showAddModal
    /\ vehicle \in vehiclesSelect(user, user).data
    /\ editingVehicle' = vehicle.id
    /\ showAddModal' = TRUE
    /\ formData' = [license_plate |-> vehicle.license_plate, status |-> vehicle.status]
    /\ UNCHANGED <<modalLoading, modalError, pendingSave, orphanSaves,
                   onSuccessCalls, storeVars, pendingFetch, pageVars>>

\* onChange of the input Placa; plate is the text in upper case
ChangePlate(plate) ==
    /\ showAddModal
    /\ plate # formData.license_plate
    /\ formData' = [formData EXCEPT !.license_plate = plate]
    /\ UNCHANGED <<showAddModal, editingVehicle, modalLoading, modalError, pendingSave,
                   orphanSaves, onSuccessCalls, storeVars, pendingFetch, pageVars>>

\* onClose: the X and Cancelar buttons
CloseModal ==
    /\ showAddModal
    /\ showAddModal' = FALSE
    /\ editingVehicle' = null
    /\ unmounted
    /\ pendingSave' = <<>>
    /\ orphanSaves' = orphanSaves \o pendingSave
    /\ UNCHANGED <<onSuccessCalls, storeVars, pendingFetch, pageVars>>

\* handleSubmit up to its await; the input Placa is required and the submit
\* button is disabled while loading
HandleSubmit ==
    /\ showAddModal /\ ~modalLoading /\ formData.license_plate # 0
    /\ onSuccessCalls + Len(orphanSaves) < MaxSaves
    /\ IF user = null THEN UNCHANGED <<modalError, modalLoading, pendingSave>>
       ELSE /\ modalError' = null
            /\ modalLoading' = TRUE
            /\ pendingSave' = <<[vehicle |-> editingVehicle,
                                 data |-> [user_id |-> user,
                                           license_plate |-> formData.license_plate,
                                           status |-> formData.status]]>>
    /\ UNCHANGED <<showAddModal, editingVehicle, formData, orphanSaves, onSuccessCalls,
                   storeVars, pendingFetch, pageVars>>

\* the statement of a handleSubmit, answered by the store
saveStatement(save) ==
    IF save.vehicle # null
    THEN vehiclesUpdate(user, save.vehicle, save.data)
    ELSE vehiclesInsert(user, Vehicle(newId(ModalVehicleIds, vehicles_table),
                                       save.data.user_id, save.data.license_plate,
                                       save.data.status))

\* the table after the statement
saved(save) ==
    LET r == saveStatement(save)
    IN  IF r.error # null THEN vehicles_table
        ELSE IF save.vehicle # null THEN (vehicles_table \ r.old) \cup r.data
        ELSE vehicles_table \cup r.data

\* onSuccess of VehiclesPage: fetchVehicles(), and the modal is closed
onSuccess ==
    /\ onSuccessCalls' = onSuccessCalls + 1
    /\ pendingFetch' = pendingFetch \cup {[view |-> "vehicles", user |-> user]}
    /\ showAddModal' = FALSE
    /\ editingVehicle' = null
    /\ unmounted

Remove(seq, i) == [j \in 1..(Len(seq) - 1) |-> IF j < i THEN seq[j] ELSE seq[j + 1]]

\* faulty variant: onSuccess is called before the error is looked at
SubmitAnswered_successFirst ==
    /\ pendingSave # <<>>
    /\ LET r == saveStatement(pendingSave[1])
       IN  /\ vehicles_table' = saved(pendingSave[1])
           /\ response' = answer("write", r)
    /\ pendingSave' = <<>>
    /\ onSuccess
    /\ UNCHANGED <<orphanSaves, tracking_history, alerts_table, pageVars>>

\* handleSubmit of the modal shown, after its await: the store has answered
SubmitAnswered ==
    /\ pendingSave # <<>>
    /\ LET r == saveStatement(pendingSave[1])
       IN  /\ vehicles_table' = saved(pendingSave[1])
           /\ response' = answer("write", r)
           /\ IF r.error = null
              THEN onSuccess
              ELSE /\ modalError' = errorMessage(r.error)
                   /\ modalLoading' = FALSE
                   /\ UNCHANGED <<showAddModal, editingVehicle, formData, onSuccessCalls,
                                  pendingFetch>>
    /\ pendingSave' = <<>>
    /\ UNCHANGED <<orphanSaves, tracking_history, alerts_table, pageVars>>

\* handleSubmit of the modal shown, after its await: the statement did not
\* reach the store
SubmitLost(message) ==
    /\ pendingSave # <<>>
    /\ response' = failed(message)
    /\ modalError' = errorMessage(message)
    /\ modalLoading' = FALSE
    /\ pendingSave' = <<>>
    /\ UNCHANGED <<showAddModal, editingVehicle, formData, onSuccessCalls, pendingFetch,
                   orphanSaves, vehicles_table, tracking_history, alerts_table, pageVars>>

\* handleSubmit of a modal closed since, after its await: the store has
\* answered; onSuccess closes the modal shown now, if any
OrphanAnswered(i) ==
    /\ i \in 1..Len(orphanSaves)
    /\ LET r == saveStatement(orphanSaves[i])
       IN  /\ vehicles_table' = saved(orphanSaves[i])
           /\ response' = answer("write", r)
           /\ IF r.error = null
              THEN /\ onSuccess
                   /\ pendingSave' = <<>>
                   /\ orphanSaves' = Remove(orphanSaves, i) \o pendingSave
              ELSE /\ orphanSaves' = Remove(orphanSaves, i)
                   /\ UNCHANGED <<showAddModal, editingVehicle, formData, modalLoading,
                                  modalError, pendingSave, onSuccessCalls, pendingFetch>>
    /\ UNCHANGED <<tracking_history, alerts_table, pageVars>>

\* handleSubmit of a modal closed since, after its await: the statement did
\* not reach the store
OrphanLost(i, message) ==
    /\ i \in 1..Len(orphanSaves)
    /\ response' = failed(message)
    /\ orphanSaves' = Remove(orphanSaves, i)
    /\ UNCHANGED <<showAddModal, editingVehicle, formData, modalLoading, modalError,
                   pendingSave, onSuccessCalls, pendingFetch, vehicles_table,
                   tracking_history, alerts_table, pageVars>>

\* VehiclesPage is shown to u1, its list fetched
InitVehicles ==
    /\ InitStore
    /\ user = "u1"
    /\ authLoading = FALSE /\ activeView = "vehicles" /\ pendingFetch = {}
    /\ HistoryInitial /\ ModalClosed

NextVehicles ==
    \/ OpenAdd
    \/ \E vehicle \in vehicles_table : OpenEdit(vehicle)
    \/ \E plate \in Plates : ChangePlate(plate)
    \/ CloseModal
    \/ HandleSubmit
    \/ SubmitAnswered
    \/ \E message \in NetworkMessages : SubmitLost(message)
    \/ \E i \in 1..Len(orphanSaves) : OrphanAnswered(i)
    \/ \E i \in 1..Len(orphanSaves), message \in NetworkMessages : OrphanLost(i, message)

SpecVehicles == InitVehicles /\ [][NextVehicles]_vars

(***************************************************************************)
(* VehiclesPage: the list.  fetchVehicles fills vehicles from the store;   *)
(* the order of the list is left out, created_at is no column of the model.*)
(***************************************************************************)
\* the labels of statusConfig
statusConfig == [status \in Statuses |->
                    CASE status = "active" -> "Ativo"
                      [] status = "inactive" -> "Inativo"
                      [] status = "maintenance" -> "Manutencao"]

\* statusConfig[status] is undefined for any other key, and config.bg throws
getStatusBadge(status) ==
    IF status \in DOMAIN statusConfig THEN statusConfig[status] ELSE "TypeError"

\* the values a statement on vehicles can carry in the column status
StatusInputs == Statuses \cup {null, "sold"}

\* onChange of the select Status
ChangeStatus(status) ==
    /\ showAddModal
    /\ status # formData.status
    /\ formData' = [formData EXCEPT !.status = status]
    /\ UNCHANGED <<showAddModal, editingVehicle, modalLoading, modalError, pendingSave,
                   orphanSaves, onSuccessCalls, storeVars, pendingFetch, pageVars>>

\* fetchVehicles of VehiclesPage after its await: the store has answered
ListAnswered(f) ==
    /\ f \in pendingFetch /\ f.view = "vehicles"
    /\ pendingFetch' = pendingFetch \ {f}
    /\ LET r == vehiclesSelect(user, f.user)
       IN  /\ response' = answer("select", r)
           /\ pageVehicles' = r.data
    /\ pageLoading' = FALSE
    /\ UNCHANGED <<vehicles_table, tracking_history, alerts_table, authLoading, activeView,
                   modalVars, tz, alertVars, trackVars, deletingVehicle, pendingDelete, user, vehicles,
                   selectedVehicle, history, dateRange, loading, stats, pendingVehicles,
                   pendingHistory, errorLogged>>

\* fetchVehicles of VehiclesPage after its await: the statement did not
\* reach the store; catch logs, finally ends the loading
ListLost(f, message) ==
    /\ f \in pendingFetch /\ f.view = "vehicles"
    /\ pendingFetch' = pendingFetch \ {f}
    /\ response' = failed(message)
    /\ pageLoading' = FALSE
    /\ errorLogged' = TRUE
    /\ UNCHANGED <<vehicles_table, tracking_history, alerts_table, authLoading, activeView,
                   modalVars, tz, alertVars, trackVars, pageVehicles, deletingVehicle, pendingDelete, user,
                   vehicles, selectedVehicle, history, dateRange, loading, stats,
                   pendingVehicles, pendingHistory>>

\* VehiclesPage mounts for u1: the effect on [user] has called fetchVehicles
InitList ==
    /\ InitStore
    /\ user = "u1"
    /\ authLoading = FALSE /\ activeView = "vehicles"
    /\ pendingFetch = {[view |-> "vehicles", user |-> "u1"]}
    /\ HistoryInitial /\ ModalClosed

\* the page with its form, and the statements a client of the signed-in user
\* can send to the table: an insert that names the status
NextStatus ==
    \/ OpenAdd
    \/ ChangePlate(Len(vehiclesTable) + 1)
    \/ \E status \in Statuses : ChangeStatus(status)
    \/ HandleSubmit
    \/ SubmitAnswered
    \/ \E f \in pendingFetch : ListAnswered(f)
    \/ \E f \in pendingFetch, message \in NetworkMessages : ListLost(f, message)
    \/ \E status \in StatusInputs : InsertVehicle(user, Len(vehiclesTable) + 1, status)

SpecStatus == InitList /\ [][NextStatus]_vars

(***************************************************************************)
(* AlertsPage.  markAsRead and deleteAlert are closures of the render that *)
(* made the button: the alerts they map or filter after the await are the  *)
(* alerts state of that render.  The map of vehicles, used for the plate   *)
(* shown with an alert, is left out.                                       *)
(***************************************************************************)
alertsRest == <<vehicles_table, tracking_history, authLoading, activeView, modalVars, tz,
                listVars, trackVars, user, vehicles, selectedVehicle, history, dateRange, loading,
                stats, pendingVehicles, pendingHistory>>

\* fetchAlerts after its await: the store has answered
FetchAlertsAnswered(f) ==
    /\ f \in pendingFetch /\ f.view = "alerts"
    /\ pendingFetch' = pendingFetch \ {f}
    /\ LET r == alertsSelect(user, f.user)
       IN  /\ response' = answer("select", r)
           /\ alerts' = r.data
    /\ alertsLoading' = FALSE
    /\ UNCHANGED <<alerts_table, pendingAlert, errorLogged, alertsRest>>

\* fetchAlerts after its await: the statement did not reach the store
FetchAlertsLost(f, message) ==
    /\ f \in pendingFetch /\ f.view = "alerts"
    /\ pendingFetch' = pendingFetch \ {f}
    /\ response' = failed(message)
    /\ errorLogged' = TRUE
    /\ alertsLoading' = FALSE
    /\ UNCHANGED <<alerts_table, alerts, pendingAlert, alertsRest>>

\* the button of an unread alert: markAsRead up to its await
markAsRead(alertId) ==
    /\ ~alertsLoading
    /\ \E alert \in alerts : alert.id = alertId /\ ~alert.is_read
    /\ Cardinality(pendingAlert) < MaxPending
    /\ pendingAlert' = pendingAlert \cup
                          {[call |-> "markAsRead", alertId |-> alertId, alerts |-> alerts]}
    /\ UNCHANGED <<alerts_table, response, pendingFetch, alerts, alertsLoading,
                   errorLogged, alertsRest>>

\* the button Excluir of an alert: deleteAlert up to its await
deleteAlert(alertId) ==
    /\ ~alertsLoading
    /\ \E alert \in alerts : alert.id = alertId
    /\ Cardinality(pendingAlert) < MaxPending
    /\ pendingAlert' = pendingAlert \cup
                          {[call |-> "deleteAlert", alertId |-> alertId, alerts |-> alerts]}
    /\ UNCHANGED <<alerts_table, response, pendingFetch, alerts, alertsLoading,
                   errorLogged, alertsRest>>

\* the statement of a call, answered by the store
alertStatement(c) ==
    IF c.call = "markAsRead" THEN alertsUpdate(user, c.alertId, [is_read |-> TRUE])
    ELSE alertsDelete(user, c.alertId)

\* setAlerts of a call: the alerts of its closure, mapped or filtered
setAlerts(c) ==
    IF c.call = "markAsRead"
    THEN {IF alert.id = c.alertId THEN [alert EXCEPT !.is_read = TRUE] ELSE alert :
             alert \in c.alerts}
    ELSE {alert \in c.alerts : alert.id # c.alertId}

\* markAsRead or deleteAlert after its await: the store has answered
AlertAnswered(c) ==
    /\ c \in pendingAlert
    /\ pendingAlert' = pendingAlert \ {c}
    /\ LET r == alertStatement(c)
       IN  /\ response' = answer(c.call, r)
           /\ alerts_table' = IF r.error # null THEN alerts_table
                              ELSE IF c.call = "markAsRead"
                                   THEN (alerts_table \ r.old) \cup r.data
                                   ELSE alerts_table \ r.data
           /\ IF r.error = null
              THEN alerts' = setAlerts(c) /\ UNCHANGED errorLogged
              ELSE errorLogged' = TRUE /\ UNCHANGED alerts
    /\ UNCHANGED <<pendingFetch, alertsLoading, alertsRest>>

\* markAsRead or deleteAlert after its await: the statement did not reach
\* the store
AlertLost(c, message) ==
    /\ c \in pendingAlert
    /\ pendingAlert' = pendingAlert \ {c}
    /\ response' = failed(message)
    /\ errorLogged' = TRUE
    /\ UNCHANGED <<alerts_table, pendingFetch, alerts, alertsLoading, alertsRest>>

\* AlertsPage mounts for u1: the effect on [user] has called fetchAlerts
InitAlerts ==
    /\ InitStore
    /\ user = "u1"
    /\ authLoading = FALSE /\ activeView = "alerts"
    /\ pendingFetch = {[view |-> "alerts", user |-> "u1"]}
    /\ HistoryInitial /\ ModalClosed

\* calls that overlap are calls on different alerts
NextAlerts ==
    \/ \E f \in pendingFetch : FetchAlertsAnswered(f)
    \/ \E f \in pendingFetch, message \in NetworkMessages : FetchAlertsLost(f, message)
    \/ \E alert \in alerts :
           (\A c \in pendingAlert : c.alertId # alert.id) /\ markAsRead(alert.id)
    \/ \E alert \in alerts :
           (\A c \in pendingAlert : c.alertId # alert.id) /\ deleteAlert(alert.id)
    \/ \E c \in pendingAlert : AlertAnswered(c)
    \/ \E c \in pendingAlert, message \in NetworkMessages : AlertLost(c, message)

SpecAlerts == InitAlerts /\ [][NextAlerts]_vars

(***************************************************************************)
(* TrackingPage.  simulateTracking awaits four statements in turn: the     *)
(* insert of the point, the update of the vehicle, and the two fetches.    *)
(* A call holds the selectedVehicle of the render that made the button,    *)
(* and so does the fetchVehicles it calls.  A statement is executed and    *)
(* answered in one step.  setSelectedVehicle runs the effect that fetches  *)
(* the points when the vehicle it is given differs from the one selected.  *)
(***************************************************************************)
MaxSimulate == 2

\* Math.random() = 0.5 in both coordinates, and 0.45
SimulatedPoints == {
    [latitude |-> fneg(Dec(235505, 4)), longitude |-> fneg(Dec(466333, 4))],
    [latitude |-> fneg(Dec(235555, 4)), longitude |-> fneg(Dec(466383, 4))] }

\* now() of the store and new Date() of the browser: later than every point
now ==
    LET hours == {r.timestamp : r \in tracking_history} \cup {NewPointHour - 1}
    IN  1 + CHOOSE h \in hours : \A g \in hours : g <= h

trackingRest == <<alerts_table, authLoading, activeView, pendingFetch, modalVars, tz,
                  listVars, alertVars, user, vehicles, selectedVehicle, history,
                  dateRange, loading, stats, pendingVehicles, pendingHistory>>

\* the vehicles query of TrackingPage: the user's active vehicles by plate
selectActive(u) ==
    orderByPlate({v \in vehiclesSelect(user, u).data : v.status = "active"})

\* the tracking_history query of fetchTrackingData
selectTracking(vehicleId) ==
    LET rows == orderDesc({r \in tracking_history : /\ ownVehicle(user, r.vehicle_id)
                                                    /\ r.vehicle_id = vehicleId})
    IN  SubSeq(rows, 1, IF Len(rows) < 50 THEN Len(rows) ELSE 50)

fetchVehiclesCall == [fetch |-> "fetchVehicles", vehicleId |-> ""]
fetchTrackingData(vehicleId) == [fetch |-> "fetchTrackingData", vehicleId |-> vehicleId]

\* fetchVehicles of the effect on [user], after its await; its closure has
\* no selectedVehicle
TrackingVehiclesAnswered ==
    /\ fetchVehiclesCall \in pendingTracking
    /\ LET vehiclesList == selectActive(user)
       IN  /\ response' = ok({vehiclesList[i] : i \in 1..Len(vehiclesList)})
           /\ trackingVehicles' = vehiclesList
           /\ IF Len(vehiclesList) > 0
              THEN /\ trackingSelected' = Value(vehiclesList[1])
                   /\ pendingTracking' = (pendingTracking \ {fetchVehiclesCall})
                                             \cup {fetchTrackingData(vehiclesList[1].id)}
              ELSE /\ UNCHANGED trackingSelected
                   /\ pendingTracking' = pendingTracking \ {fetchVehiclesCall}
    /\ trackingLoading' = FALSE
    /\ UNCHANGED <<vehicles_table, tracking_history, trackingData, pendingSimulate,
                   simulateCalls, errorLogged, trackingRest>>

\* fetchTrackingData of the effect on [selectedVehicle], after its await
TrackingDataAnswered(f) ==
    /\ f \in pendingTracking /\ f.fetch = "fetchTrackingData"
    /\ pendingTracking' = pendingTracking \ {f}
    /\ LET rows == selectTracking(f.vehicleId)
       IN  /\ response' = ok({rows[i] : i \in 1..Len(rows)})
           /\ trackingData' = rows
    /\ UNCHANGED <<vehicles_table, tracking_history, trackingVehicles, trackingSelected,
                   trackingLoading, pendingSimulate, simulateCalls, errorLogged,
                   trackingRest>>

\* a fetch of an effect whose statement did not reach the store
TrackingFetchLost(f, message) ==
    /\ f \in pendingTracking
    /\ pendingTracking' = pendingTracking \ {f}
    /\ response' = failed(message)
    /\ errorLogged' = TRUE
    /\ trackingLoading' = IF f = fetchVehiclesCall THEN FALSE ELSE trackingLoading
    /\ UNCHANGED <<vehicles_table, tracking_history, trackingVehicles, trackingSelected,
                   trackingData, pendingSimulate, simulateCalls, trackingRest>>

\* the page below its early returns: the buttons are rendered
TrackingControls == ~trackingLoading /\ Len(trackingVehicles) > 0

\* the button of a vehicle of the list
SelectTracked(i) ==
    /\ TrackingControls
    /\ i \in 1..Len(trackingVehicles)
    /\ trackingSelected # Value(trackingVehicles[i])
    /\ Cardinality(pendingTracking) < MaxPending
    /\ trackingSelected' = Value(trackingVehicles[i])
    /\ pendingTracking' = pendingTracking \cup {fetchTrackingData(trackingVehicles[i].id)}
    /\ UNCHANGED <<storeVars, trackingVehicles, trackingData, trackingLoading,
                   pendingSimulate, simulateCalls, errorLogged, trackingRest>>

\* the button Simular Localizacao: simulateTracking up to its first await
simulateTracking(point) ==
    /\ TrackingControls
    /\ simulateCalls < MaxSimulate
    /\ simulateCalls' = simulateCalls + 1
    /\ pendingSimulate' =
           IF trackingSelected = NULL \/ user = null THEN pendingSimulate
           ELSE pendingSimulate \cup {[n |-> simulateCalls + 1, await |-> "insert",
                                       selectedVehicle |-> trackingSelected[1],
                                       newPoint |-> point]}
    /\ UNCHANGED <<storeVars, trackingVehicles, trackingSelected, trackingData,
                   trackingLoading, pendingTracking, errorLogged, trackingRest>>

\* the statement a call awaits, answered by the store
simulateStatement(c) ==
    CASE c.await = "insert" ->
             trackingInsert(user, Row(c.selectedVehicle.id, c.newPoint.latitude,
                                      c.newPoint.longitude, FromInt(60), now))
      [] c.await = "update" ->
             vehiclesUpdate(user, c.selectedVehicle.id,
                            [last_location_lat |-> Value(c.newPoint.latitude),
                             last_location_lng |-> Value(c.newPoint.longitude),
                             last_seen |-> Value(now)])
      [] c.await = "fetchTrackingData" ->
             LET rows == selectTracking(c.selectedVehicle.id)
             IN  ok({rows[i] : i \in 1..Len(rows)})
      [] c.await = "fetchVehicles" ->
             LET rows == selectActive(user)
             IN  ok({rows[i] : i \in 1..Len(rows)})

\* faulty variant: the error of a write is not looked at
afterAwait_noThrow(await, error) ==
    CASE await = "insert" -> "update"
      [] await = "update" -> "fetchTrackingData"
      [] await = "fetchTrackingData" -> "fetchVehicles"
      [] await = "fetchVehicles" -> "return"

\* where a call goes on after an await: a write that failed throws, and
\* fetchTrackingData and fetchVehicles catch their own errors
afterAwait(await, error) ==
    CASE await = "insert" -> IF error # null THEN "catch" ELSE "update"
      [] await = "update" -> IF error # null THEN "catch" ELSE "fetchTrackingData"
      [] await = "fetchTrackingData" -> "fetchVehicles"
      [] await = "fetchVehicles" -> "return"

\* a call after one of its awaits, with the answer r
resume(c, r) ==
    LET next == afterAwait(c.await, r.error)
    IN  /\ response' = [error |-> r.error,
                        data |-> IF c.await \in {"insert", "update"} THEN {} ELSE r.data]
        /\ pendingSimulate' = (pendingSimulate \ {c}) \cup
                                 (IF next \in {"catch", "return"} THEN {}
                                  ELSE {[c EXCEPT !.await = next]})
        /\ errorLogged' = (errorLogged \/ r.error # null)
        /\ trackingData' = IF c.await = "fetchTrackingData" /\ r.error = null
                           THEN selectTracking(c.selectedVehicle.id) ELSE trackingData
        /\ trackingVehicles' = IF c.await = "fetchVehicles" /\ r.error = null
                               THEN selectActive(user) ELSE trackingVehicles
        /\ trackingLoading' = IF c.await = "fetchVehicles" THEN FALSE ELSE trackingLoading
        /\ UNCHANGED <<trackingSelected, pendingTracking, simulateCalls, trackingRest>>

\* a call after one of its awaits: the store has answered
SimulateAnswered(c) ==
    /\ c \in pendingSimulate
    /\ LET r == simulateStatement(c)
       IN  /\ tracking_history' = IF c.await = "insert" THEN tracking_history \cup r.data
                                  ELSE tracking_history
           /\ vehicles_table' = IF c.await = "update" /\ r.error = null
                                THEN (vehicles_table \ r.old) \cup r.data
                                ELSE vehicles_table
           /\ resume(c, r)

\* a call after one of its awaits: the statement did not reach the store
SimulateLost(c, message) ==
    /\ c \in pendingSimulate
    /\ resume(c, failed(message))
    /\ UNCHANGED <<vehicles_table, tracking_history>>

\* TrackingPage mounts for u1: the effect on [user] has called fetchVehicles
InitTracking ==
    /\ InitStore
    /\ user = "u1"
    /\ authLoading = FALSE /\ activeView = "tracking" /\ pendingFetch = {}
    /\ tz \in TimeZones
    /\ vehicles = <<>> /\ selectedVehicle = "" /\ history = <<>>
    /\ dateRange = [start |-> MaxDay - Week, end |-> MaxDay]
    /\ loading = TRUE
    /\ stats = [totalRecords |-> 0, avgSpeed |-> Zero, maxSpeed |-> Zero, totalDistance |-> Zero]
    /\ pendingVehicles = FALSE /\ pendingHistory = {} /\ errorLogged = FALSE
    /\ ModalClosed
    /\ pageVehicles = {} /\ pageLoading = TRUE /\ deletingVehicle = null
    /\ pendingDelete = {}
    /\ alerts = {} /\ alertsLoading = TRUE /\ pendingAlert = {}
    /\ trackingVehicles = <<>> /\ trackingSelected = NULL /\ trackingData = <<>>
    /\ trackingLoading = TRUE
    /\ pendingTracking = {fetchVehiclesCall}
    /\ pendingSimulate = {} /\ simulateCalls = 0

\* an error of TrackingPage is only given to console.error: one message
\* stands for all
LoggedMessages == {"Failed to fetch"}

NextTracking ==
    \/ TrackingVehiclesAnswered
    \/ \E f \in pendingTracking : TrackingDataAnswered(f)
    \/ \E f \in pendingTracking, message \in LoggedMessages : TrackingFetchLost(f, message)
    \/ \E i \in 1..Len(trackingVehicles) : SelectTracked(i)
    \/ \E point \in SimulatedPoints : simulateTracking(point)
    \/ \E c \in pendingSimulate : SimulateAnswered(c)
    \/ \E c \in pendingSimulate, message \in LoggedMessages : SimulateLost(c, message)

SpecTracking == InitTracking /\ [][NextTracking]_vars

(***************************************************************************)
(* VehiclesPage: Excluir.  DeleteConfirmModal is rendered while            *)
(* deletingVehicle is set, above the cards; its onConfirm is taken once    *)
(* for a vehicle, and its onCancel while no delete of the vehicle is       *)
(* awaited.  handleDelete is a closure of the render that made the modal:  *)
(* the vehicles it filters after the await are those of that render.       *)
(* filteredVehicles, which an effect computes from vehicles and the search *)
(* term, is left out.                                                      *)
(***************************************************************************)
deleteRest == <<authLoading, activeView, modalVars, tz, alertVars, trackVars, user,
                vehicles, selectedVehicle, history, dateRange, loading, stats,
                pendingVehicles, pendingHistory>>

\* the button Excluir of a card
ClickDelete(vehicle) ==
    /\ ~pageLoading /\ ~showAddModal /\ deletingVehicle = null
    /\ vehicle \in pageVehicles
    /\ deletingVehicle' = vehicle.id
    /\ UNCHANGED <<storeVars, pendingFetch, pageVehicles, pageLoading, pendingDelete,
                   errorLogged, deleteRest>>

\* onCancel
CancelDelete ==
    /\ deletingVehicle # null
    /\ \A c \in pendingDelete : c.vehicleId # deletingVehicle
    /\ deletingVehicle' = null
    /\ UNCHANGED <<storeVars, pendingFetch, pageVehicles, pageLoading, pendingDelete,
                   errorLogged, deleteRest>>

\* onConfirm: handleDelete up to its await
handleDelete ==
    /\ deletingVehicle # null
    /\ \A c \in pendingDelete : c.vehicleId # deletingVehicle
    /\ pendingDelete' = pendingDelete \cup
                           {[vehicleId |-> deletingVehicle, vehicles |-> pageVehicles]}
    /\ UNCHANGED <<storeVars, pendingFetch, pageVehicles, pageLoading, deletingVehicle,
                   errorLogged, deleteRest>>

\* handleDelete after its await: the list and deletingVehicle it sets
afterDelete(c, error) ==
    IF error # null THEN [vehicles |-> pageVehicles, deletingVehicle |-> deletingVehicle]
    ELSE [vehicles |-> {v \in c.vehicles : v.id # c.vehicleId}, deletingVehicle |-> null]

\* handleDelete after its await: the store has answered
DeleteAnswered(c) ==
    /\ c \in pendingDelete
    /\ pendingDelete' = pendingDelete \ {c}
    /\ LET r == vehiclesDelete(user, c.vehicleId)
       IN  /\ vehicles_table' = vehicles_table \ r.data
           /\ tracking_history' = cascade(tracking_history, r.data)
           /\ alerts_table' = cascade(alerts_table, r.data)
           /\ response' = answer("delete", r)
           /\ pageVehicles' = afterDelete(c, r.error).vehicles
           /\ deletingVehicle' = afterDelete(c, r.error).deletingVehicle
           /\ errorLogged' = (errorLogged \/ r.error # null)
    /\ UNCHANGED <<pendingFetch, pageLoading, deleteRest>>

\* handleDelete after its await: the statement did not reach the store
DeleteLost(c, message) ==
    /\ c \in pendingDelete
    /\ pendingDelete' = pendingDelete \ {c}
    /\ response' = failed(message)
    /\ pageVehicles' = afterDelete(c, message).vehicles
    /\ deletingVehicle' = afterDelete(c, message).deletingVehicle
    /\ errorLogged' = TRUE
    /\ UNCHANGED <<vehicles_table, tracking_history, alerts_table, pendingFetch,
                   pageLoading, deleteRest>>

\* the page with its list, the form that adds a vehicle, and Excluir
NextDelete ==
    \/ deletingVehicle = null /\ ~pageLoading /\ OpenAdd
    \/ ChangePlate(Len(vehiclesTable) + 1)
    \/ HandleSubmit
    \/ SubmitAnswered
    \/ \E f \in pendingFetch : ListAnswered(f)
    \/ \E f \in pendingFetch, message \in NetworkMessages : ListLost(f, message)
    \/ \E vehicle \in pageVehicles : ClickDelete(vehicle)
    \/ CancelDelete
    \/ handleDelete
    \/ \E c \in pendingDelete : DeleteAnswered(c)
    \/ \E c \in pendingDelete, message \in NetworkMessages : DeleteLost(c, message)

SpecDelete == InitList /\ [][NextDelete]_vars

(***************************************************************************)
(* App: AppContent chooses what is rendered from useAuth() and activeView. *)
(* A page view that mounts, and Header with it, runs its effect on [user]  *)
(* and starts its fetch when there is a user.                              *)
(***************************************************************************)
Views == {"dashboard", "vehicles", "tracking", "history", "alerts", "settings"}

\* renderView: the switch on activeView
renderView == IF activeView \in Views THEN activeView ELSE "dashboard"

\* faulty variant: the check of user is missing
AppContent_noLogin ==
    IF authLoading THEN "spinner" ELSE renderView

\* what AppContent returns
AppContent ==
    IF authLoading THEN "spinner"
    ELSE IF user = null THEN "LoginPage"
    ELSE renderView

fetchOf(view, u) == [view |-> view, user |-> u]

\* the fetches the effects start in a step: those of the page view when it
\* mounts, and those of Header when the layout mounts
effects ==
    LET before == AppContent
        after == AppContent'
    IN  IF after \notin Views \/ user' = null THEN {}
        ELSE (IF before # after THEN {fetchOf(after, user')} ELSE {})
                 \cup (IF before \notin Views THEN {fetchOf("Header", user')} ELSE {})

appRest == <<storeVars, modalVars, pagesVars, vehicles, selectedVehicle, history, dateRange,
             loading, stats, pendingVehicles, pendingHistory, errorLogged>>

\* AuthProvider has looked for a session: user u, or none
AuthResolved(u) ==
    /\ authLoading
    /\ Cardinality(pendingFetch) < MaxPending
    /\ authLoading' = FALSE
    /\ user' = u
    /\ activeView' = activeView
    /\ pendingFetch' = pendingFetch \cup effects
    /\ UNCHANGED appRest

\* LoginPage: u signs in
SignIn(u) ==
    /\ AppContent = "LoginPage"
    /\ Cardinality(pendingFetch) < MaxPending
    /\ user' = u
    /\ UNCHANGED <<authLoading, activeView>>
    /\ pendingFetch' = pendingFetch \cup effects
    /\ UNCHANGED appRest

\* Sidebar, the button Sair: signOut
SignOut ==
    /\ AppContent \in Views
    /\ user' = null
    /\ UNCHANGED <<authLoading, activeView>>
    /\ pendingFetch' = pendingFetch \cup effects
    /\ UNCHANGED appRest

\* Sidebar, a menu button: onViewChange(view)
OnViewChange(view) ==
    /\ AppContent \in Views
    /\ view # activeView
    /\ Cardinality(pendingFetch) < MaxPending
    /\ activeView' = view
    /\ UNCHANGED <<authLoading, user>>
    /\ pendingFetch' = pendingFetch \cup effects
    /\ UNCHANGED appRest

\* a fetch is answered
FetchAnswered(f) ==
    /\ f \in pendingFetch
    /\ pendingFetch' = pendingFetch \ {f}
    /\ UNCHANGED <<authLoading, user, activeView, appRest>>

\* the page is loaded: AuthProvider is looking for a session
InitApp ==
    /\ InitStore
    /\ user = null
    /\ authLoading = TRUE /\ activeView = "dashboard" /\ pendingFetch = {}
    /\ HistoryInitial /\ ModalClosed

NextApp ==
    \/ \E u \in Users \cup {null} : AuthResolved(u)
    \/ \E u \in Users : SignIn(u)
    \/ SignOut
    \/ \E view \in Views : OnViewChange(view)
    \/ \E f \in pendingFetch : FetchAnswered(f)

SpecApp == InitApp /\ [][NextApp]_vars

(***************************************************************************)
(* calculateStats on any batch: one fetchHistory awaits its response, and  *)
(* the response carries any sequence of up to MaxLen of the Samples.       *)
(***************************************************************************)
Samples == {
    Row("v1", Zero, Zero, FromInt(10), 1),
    Row("v1", Zero, One, FromInt(20), 2),
    Row("v1", FromInt(12), Zero, FromInt(30), 3),
    Row("v1", fneg(Dec(235505, 4)), fneg(Dec(466333, 4)), FromInt(50), 4),
    Row("v1", fneg(Dec(235505, 4)), fneg(Dec(466333, 4)), FromInt(60), 5),
    Row("v1", fneg(FromInt(12)), FromInt(180), Dec(251, 1), 6) }

Batches == UNION {[1..n -> Samples] : n \in 0..MaxLen}

InitStats ==
    /\ tz \in TimeZones /\ PagesInitial
    /\ InitStore /\ HistoryMounted /\ ModalClosed
    /\ user = "u1"
    /\ vehicles = selectVehicles("u1")
    /\ selectedVehicle = "v1"
    /\ history = <<>>
    /\ dateRange = [start |-> MaxDay - Week, end |-> MaxDay]
    /\ loading = FALSE
    /\ stats = [totalRecords |-> 0, avgSpeed |-> Zero, maxSpeed |-> Zero, totalDistance |-> Zero]
    /\ pendingVehicles = FALSE
    /\ pendingHistory = {request("v1", dateRange)}
    /\ errorLogged = FALSE

NextStats == \E req \in pendingHistory : \E records \in Batches : FetchHistoryOk(req, records)

SpecStats == InitStats /\ [][NextStats]_vars

(***************************************************************************)
(* Properties                                                              *)
(***************************************************************************)
ZeroStats == [totalRecords |-> 0, avgSpeed |-> Zero, maxSpeed |-> Zero, totalDistance |-> Zero]

\* every fetchHistory call so far has delivered its records
AllDelivered == pendingHistory = {} /\ ~errorLogged /\ selectedVehicle # ""

\* C1: an empty batch gives totalRecords = 0, avgSpeed = 0, maxSpeed = 0 and
\* totalDistance = 0; and in every state of HistoryPage, the initial one
\* included, stats.totalRecords = 0 implies that the other three are 0.
C1_EmptyBatchAllZero ==
    /\ history = <<>> => stats.totalRecords = 0
    /\ stats.totalRecords = 0 =>
           /\ stats.avgSpeed = Zero
           /\ stats.maxSpeed = Zero
           /\ stats.totalDistance = Zero

\* a fetch has delivered an empty batch (the one that set history last)
C1_Witness == AllDelivered /\ history = <<>> /\ stats = ZeroStats

\* C2: a single-sample batch [s] gives totalRecords = 1, avgSpeed = maxSpeed =
\* s.speed and totalDistance = 0.
C2_SingleSample ==
    Len(history) = 1 =>
        /\ stats.totalRecords = 1
        /\ stats.avgSpeed = history[1].speed
        /\ stats.maxSpeed = history[1].speed
        /\ stats.totalDistance = Zero

C2_Witness == pendingHistory = {} /\ Len(history) = 1 /\ stats.totalRecords = 1

speedsOf(records) == [i \in 1..Len(records) |-> records[i].speed]

\* the least exponent among the non-zero doubles of xs (0 when there is none)
MinExp(xs) ==
    LET es == {xs[i].e : i \in {j \in 1..Len(xs) : ~IsZero(xs[j])}}
    IN  IF es = {} THEN 0 ELSE CHOOSE e \in es : \A f \in es : e <= f

\* the integer x / 2^e of a non-negative double x whose exponent is at least e
Scaled(x, e) == IF IsZero(x) THEN <<>> ELSE BShl(x.m, x.e - e)

\* the exact sum of the non-negative doubles xs, in units of 2^e
RECURSIVE ExactSum(_, _)
ExactSum(xs, e) == IF xs = <<>> THEN <<>> ELSE BAdd(Scaled(Head(xs), e), ExactSum(Tail(xs), e))

\* the arithmetic mean of the non-negative doubles xs over the reals,
\* rounded once to the nearest double
ExactMean(xs) ==
    LET e == MinExp(xs)
        d == BDivSmall(BShl(ExactSum(xs, e), 2 * LimbBits), Len(xs))
    IN  RoundToDouble(FALSE, d.q, e - 2 * LimbBits, d.r # 0)

\* non-negative doubles x and y differ by at most k units in the last place
\* (of the one with the smaller exponent); NaN is near NaN only
Near(x, y, k) ==
    IF x.nan \/ y.nan THEN x.nan /\ y.nan
    ELSE LET e == MinExp(<<x, y>>)
             a == Scaled(x, e)
             b == Scaled(y, e)
         IN  BCmp(IF BCmp(a, b) >= 0 THEN BSub(a, b) ELSE BSub(b, a), BFromInt(k)) <= 0

\* C3: for every non-empty batch (the speeds of the model are non-negative)
\* the computed maxSpeed is at least the computed avgSpeed.
C3_MaxAtLeastAvg == history # <<>> => fle(stats.avgSpeed, stats.maxSpeed)

\* the permutations of 1..n
Perms(n) == {f \in [1..n -> 1..n] : \A i, j \in 1..n : f[i] = f[j] => i = j}

\* C4 as stated: avgSpeed is the mean of the speeds whatever the order of
\* the samples, so every reordering of the batch gives the same avgSpeed.
C4_AvgOrderIndependent ==
    \A f \in Perms(Len(history)) :
        calculateStats([i \in 1..Len(history) |-> history[f[i]]]).avgSpeed = stats.avgSpeed

\* C4, amended: avgSpeed is within Len(history) units in the last place of
\* the mean of the speeds (a value that depends on neither the order nor the
\* coordinates of the samples), and speeds 10, 20, 30 give exactly 20.
C4_AvgNearMean ==
    history # <<>> =>
        /\ Near(stats.avgSpeed, ExactMean(speedsOf(history)), Len(history))
        /\ (Len(history) = 3 /\ {history[i].speed : i \in 1..3} = {FromInt(10), FromInt(20), FromInt(30)})
               => stats.avgSpeed = FromInt(20)

\* speeds 60, 25.1, 25.1: the average is not the mean rounded once
C4_Witness ==
    /\ pendingHistory = {}
    /\ speedsOf(history) = <<FromInt(60), Dec(251, 1), Dec(251, 1)>>
    /\ stats.avgSpeed # ExactMean(speedsOf(history))

\* C5: maxSpeed is the speed of some sample of the batch, and no sample of
\* the batch has a greater speed (none is left out).
C5_MaxIsGreatestSpeed ==
    history # <<>> =>
        /\ \E i \in 1..Len(history) : stats.maxSpeed = history[i].speed
        /\ \A i \in 1..Len(history) : fle(history[i].speed, stats.maxSpeed)

\* the greatest speed is 60, in the middle of the batch
C5_Witness ==
    /\ pendingHistory = {}
    /\ Len(history) = 3
    /\ stats.maxSpeed = FromInt(60)
    /\ history[2].speed = FromInt(60)
    /\ history[1].speed # FromInt(60) /\ history[3].speed # FromInt(60)

Reverse(seq) == [i \in 1..Len(seq) |-> seq[Len(seq) + 1 - i]]

\* the value the distance loop leaves in totalDistance
distanceOf(records) == distanceLoop(records, 2, Zero)

\* the samples of a batch, oldest first
chronological(records) == Reverse(orderDesc({records[i] : i \in 1..Len(records)}))

\* no sample occurs twice in the batch
Distinct(records) == Cardinality({records[i] : i \in 1..Len(records)}) = Len(records)

\* C6 as stated: whatever the order of the batch, totalDistance is the sum
\* of the distances between the samples that are neighbours by timestamp
\* (compared up to rounding, Len(history) units in the last place).
C6_DistanceIsChronological ==
    Distinct(history) =>
        Near(stats.totalDistance, distanceOf(chronological(history)), Len(history))

C8_SamePlaceAddsNothing ==
    /\ \A i \in 2..Len(history) :
           (/\ history[i].latitude = history[i - 1].latitude
            /\ history[i].longitude = history[i - 1].longitude)
               => distanceOf(SubSeq(history, 1, i)) = distanceOf(SubSeq(history, 1, i - 1))
    /\ (/\ history # <<>>
        /\ \A i \in 1..Len(history) : /\ history[i].latitude = history[1].latitude
                                      /\ history[i].longitude = history[1].longitude)
           => /\ stats.totalDistance = Zero
              /\ stats.totalRecords = Len(history)
              /\ Near(stats.avgSpeed, ExactMean(speedsOf(history)), Len(history))
              /\ \A i \in 1..Len(history) : fle(history[i].speed, stats.maxSpeed)
    /\ (/\ Len(history) = 2
        /\ history[1].latitude = history[2].latitude
        /\ history[1].longitude = history[2].longitude
        /\ speedsOf(history) = <<FromInt(50), FromInt(60)>>)
           => stats = [totalRecords |-> 2, avgSpeed |-> FromInt(55),
                       maxSpeed |-> FromInt(60), totalDistance |-> Zero]

\* scenario A has been computed
C8_Witness ==
    /\ pendingHistory = {}
    /\ Len(history) = 2
    /\ history[1].latitude = fneg(Dec(235505, 4)) /\ history[2].latitude = fneg(Dec(235505, 4))
    /\ history[1].longitude = fneg(Dec(466333, 4)) /\ history[2].longitude = fneg(Dec(466333, 4))
    /\ speedsOf(history) = <<FromInt(50), FromInt(60)>>
    /\ stats.totalDistance = Zero

\* C9 as stated: totalDistance >= 0, and no less than the totalDistance of
\* the batch without its last sample.
C9_DistanceNonNegativeMonotone ==
    /\ fle(Zero, stats.totalDistance)
    /\ history # <<>> =>
           fle(distanceOf(SubSeq(history, 1, Len(history) - 1)), stats.totalDistance)

\* C10: in every state of HistoryPage the stats are calculateStats of the
\* history shown, with totalRecords its length: what was shown before a
\* fetch leaves no trace.
C10_StatsOfHistory ==
    /\ stats = calculateStats(history)
    /\ stats.totalRecords = Len(history)

\* two fetches at least have delivered, the last one a non-empty batch
C10_Witness ==
    /\ AllDelivered
    /\ dateRange # [start |-> MaxDay - Week, end |-> MaxDay]
    /\ Len(history) >= 2

\* C11: calculateStats is a function of the batch alone. A step of
\* HistoryPage that delivers the batch already shown leaves the stats as
\* they are, whatever the vehicle selected, the date range and the stats
\* shown before; and stats that change become calculateStats of the batch
\* delivered.
C11_SameBatchSameStats ==
    [][/\ history' = history => stats' = stats
       /\ stats' # stats => stats' = calculateStats(history')]_vars

\* the first request (the week up to MaxDay) and the request of the range
\* shown have both delivered: the same three records, computed twice
C11_Witness ==
    /\ AllDelivered
    /\ selectedVehicle = "v1"
    /\ dateRange = [start |-> 0, end |-> MaxDay]
    /\ Len(history) = 3
    /\ stats.totalRecords = 3

\* C12: the statistics computation has no side effect. In a step of
\* HistoryPage that changes the stats, the history becomes the response of
\* one of the requests awaited, as the store returns it (same length, same
\* order, same fields); the table, the vehicle list, the selected vehicle
\* and the date range stay as they are, and no request is sent.
C12_StatsFrame ==
    [][stats' # stats =>
          /\ \E req \in pendingHistory \ pendingHistory' :
                 history' = selectHistory(tracking_history, user, req)
          /\ tracking_history' = tracking_history
          /\ vehicles' = vehicles
          /\ selectedVehicle' = selectedVehicle
          /\ dateRange' = dateRange
          /\ pendingHistory' \subseteq pendingHistory
          /\ pendingVehicles' = pendingVehicles]_vars

\* the stats of the two records of the second vehicle have replaced those
\* of the first vehicle
C12_Witness ==
    /\ pendingHistory = {} /\ ~errorLogged
    /\ vehicles = <<"v1", "v2">>
    /\ selectedVehicle = "v2"
    /\ Len(history) = 2
    /\ \A i \in 1..2 : history[i].vehicle_id = "v2"
    /\ stats.totalRecords = 2

\* the records of vehicle v whose timestamp falls on the days range.start to
\* range.end of the calendar at offset z from UTC, newest first
dayBatch(v, range, z) ==
    orderDesc({r \in tracking_history :
                  /\ r.vehicle_id = v
                  /\ LocalDay(r.timestamp, z) >= range.start
                  /\ LocalDay(r.timestamp, z) <= range.end})

\* C13 as stated: the batch that answers the request fetchHistory has sent
\* for the vehicle and the date range shown is exactly the records of that
\* vehicle from 00:00:00.000 of the start date to 23:59:59.999 of the end
\* date, newest first; the dates are read in local time or in UTC.
C13_BatchIsDateRange ==
    (selectedVehicle # "" /\ request(selectedVehicle, dateRange) \in pendingHistory) =>
        LET batch == selectHistory(tracking_history, user, request(selectedVehicle, dateRange))
        IN  \/ batch = dayBatch(selectedVehicle, dateRange, tz)
            \/ batch = dayBatch(selectedVehicle, dateRange, 0)

\* the two samples of scenario B, in either order
EquatorDegree(records) ==
    /\ Len(records) = 2
    /\ \A i \in 1..2 : records[i].latitude = Zero
    /\ {records[1].longitude, records[2].longitude} = {Zero, One}

\* C14: the distance of a batch of two samples is the haversine distance of
\* the pair on a sphere of radius 6371 km, and for (0, 0) and (0, 1) the
\* totalDistance is within 0.1 km of 111.19 km.
C14_HaversineEquatorDegree ==
    /\ Len(history) = 2 =>
           stats.totalDistance = haversine(history[2].latitude, history[2].longitude,
                                           history[1].latitude, history[1].longitude)
    /\ EquatorDegree(history) =>
           /\ fle(Dec(11109, 2), stats.totalDistance)
           /\ fle(stats.totalDistance, Dec(11129, 2))

\* scenario B has been computed
C14_Witness ==
    /\ pendingHistory = {}
    /\ EquatorDegree(history)
    /\ history[1].longitude = One
    /\ stats.totalRecords = 2
    /\ flt(Zero, stats.totalDistance)

\* a step in which a handleSubmit ends: that of the modal shown, or that of
\* a modal closed since
ShownSaveEnds ==
    pendingSave # <<>> /\ pendingSave' = <<>> /\ Len(orphanSaves') = Len(orphanSaves)
OrphanSaveEnds == Len(orphanSaves') < Len(orphanSaves)

\* what C15 states of a save that fails and of a save that succeeds
SaveOutcome ==
    IF response'.error # null
    THEN /\ modalError' = errorMessage(response'.error)
         /\ showAddModal /\ showAddModal'
         /\ ~modalLoading'
         /\ onSuccessCalls' = onSuccessCalls
    ELSE /\ modalError' = null
         /\ onSuccessCalls' = onSuccessCalls + 1

\* C15 as stated: whenever a handleSubmit ends, a failure has its message
\* (or the default message) in the modal's error, onSuccess is not called,
\* the modal is open and loading is false; a success leaves error null and
\* calls onSuccess once.
C15_SaveOutcome ==
    [][(ShownSaveEnds \/ OrphanSaveEnds) => SaveOutcome]_vars

\* C15, amended: this holds of the handleSubmit of the modal shown.  The
\* handleSubmit of a modal that was closed before the answer calls onSuccess
\* once when it succeeds, and when it fails it changes nothing: no error is
\* stored or shown and onSuccess is not called.
C15_SaveOutcomeWhileShown ==
    [][/\ ShownSaveEnds => SaveOutcome
       /\ (OrphanSaveEnds /\ response'.error # null) =>
              UNCHANGED <<showAddModal, editingVehicle, formData, modalLoading,
                          modalError, pendingSave, onSuccessCalls, vehicles_table>>
       /\ (OrphanSaveEnds /\ response'.error = null) =>
              onSuccessCalls' = onSuccessCalls + 1 /\ ~showAddModal']_vars

\* the insert of a plate another vehicle has was rejected, the modal shows
\* the error
C15_Witness ==
    /\ showAddModal /\ editingVehicle = null
    /\ modalError = "unique" /\ response.error = "unique"
    /\ ~modalLoading
    /\ pendingSave = <<>> /\ orphanSaves = <<>>
    /\ onSuccessCalls = 0

C17_VehiclesPerUser ==
    /\ [](\A r \in response.data : r.user_id = user)
    /\ [][\A r \in (vehicles_table \ vehicles_table') \cup (vehicles_table' \ vehicles_table) :
              r.user_id = user /\ user' = user]_vars

\* u1 has a vehicle of its own making, has just been refused a row that is
\* not its own, and the vehicle of u2 is as it was
C17_Witness ==
    /\ user = "u1"
    /\ response.error = "rls"
    /\ vehiclesTable[3] \in vehicles_table
    /\ \E r \in vehicles_table : r.id = "v4" /\ r.user_id = "u1"

\* C18: in every state each tracking_history row, and each alert whose
\* vehicle_id is not null, refers to a vehicle of the table: the delete of a
\* vehicle removes the rows that refer to it in the same step, and no insert
\* or update leaves a row that refers to no vehicle.
C18_ReferentialIntegrity ==
    /\ \A r \in tracking_history : \E v \in vehicles_table : v.id = r.vehicle_id
    /\ \A a \in alerts_table :
           a.vehicle_id # null => \E v \in vehicles_table : v.id = a.vehicle_id

\* the vehicle v1 has been deleted with its three points and its alert; the
\* point of v3 and the alert without vehicle remain
C18_Witness ==
    /\ \A v \in vehicles_table : v.id # "v1"
    /\ \E v \in vehicles_table : v.id = "v3"
    /\ \E r \in tracking_history : r.vehicle_id = "v3"
    /\ \E a \in alerts_table : a.vehicle_id = null
    /\ \A a \in alerts_table : a.id # "a1"

\* no two vehicles share a license_plate, whoever owns them
PlatesDiffer ==
    \A r1, r2 \in vehicles_table : r1.license_plate = r2.license_plate => r1.id = r2.id

\* a save refused for its plate leaves the table as it is and does not call
\* onSuccess
RefusedSave ==
    response'.error = "unique" =>
        vehicles_table' = vehicles_table /\ onSuccessCalls' = onSuccessCalls

\* C19 as stated: no two vehicles share a license_plate; a save from
\* AddVehicleModal that would duplicate one is refused, leaves the table
\* as it is, and ends as the modal's error, not as a call of onSuccess.
C19_UniquePlate ==
    /\ []PlatesDiffer
    /\ [][/\ RefusedSave
          /\ ((ShownSaveEnds \/ OrphanSaveEnds) /\ response'.error = "unique") =>
                 (showAddModal' /\ modalError' = "unique")]_vars

\* C19, amended: the refusal ends as the error of the modal when the modal
\* that sent the save is still shown.
C19_UniquePlateWhileShown ==
    /\ []PlatesDiffer
    /\ [][/\ RefusedSave
          /\ (ShownSaveEnds /\ response'.error = "unique") =>
                 (showAddModal' /\ modalError' = "unique")]_vars

\* the edit of v1 to the plate of another vehicle was refused: the modal
\* shows the error and the table is as it was
C19_Witness ==
    /\ showAddModal /\ editingVehicle = "v1"
    /\ formData.license_plate = 3
    /\ modalError = "unique" /\ response.error = "unique"
    /\ pendingSave = <<>>
    /\ vehicles_table = {vehiclesTable[i] : i \in 1..Len(vehiclesTable)}

\* C20: tracking_history is append-only for the users.  A row that a step
\* adds belongs to a vehicle of the user of the session; a row that a step
\* removes belongs to a vehicle the same step deletes; so the points of a
\* vehicle that stays only grow, and no point is ever changed.
C20_TrackingAppendOnly ==
    [][/\ \A r \in tracking_history' \ tracking_history : ownVehicle(user, r.vehicle_id)
       /\ \A r \in tracking_history \ tracking_history' :
              /\ \E v \in vehicles_table : v.id = r.vehicle_id
              /\ \A v \in vehicles_table' : v.id # r.vehicle_id]_vars

\* a point was added to v1 and one to a new vehicle; v3 was deleted and its
\* point went with it; the three first points of v1 are as they were
C20_Witness ==
    /\ newPoint("v1") \in tracking_history
    /\ newPoint("v4") \in tracking_history
    /\ \A r \in tracking_history : r.vehicle_id # "v3"
    /\ \A r \in trackingRows : r.vehicle_id = "v1" => r \in tracking_history

\* C21: every vehicle's status is one of 'active', 'inactive', 'maintenance',
\* in the table and in the list of VehiclesPage, so getStatusBadge finds a
\* configuration for every vehicle it is given.  The store accepts a row
\* whose status is NULL, and getStatusBadge throws on it.
C21_StatusBadgeDefined ==
    /\ \A v \in vehicles_table : v.status \in Statuses
    /\ \A v \in pageVehicles : getStatusBadge(v.status) # "TypeError"

\* the store's CHECK rejects every status that is neither NULL nor one of
\* the three, and the form writes no NULL
StatusKnownOrNull ==
    /\ \A v \in vehicles_table : v.status = null \/ v.status \in Statuses
    /\ formData.status \in Statuses

\* C22: when fetchHistory requests overlap and all succeed, then once none
\* is in flight the history and the statistics shown are those of the
\* vehicle and the date range selected now, whatever the order of the
\* responses.
C22_CurrentSelectionShown ==
    (pendingHistory = {} /\ ~pendingVehicles /\ ~errorLogged /\ selectedVehicle # "")
        => /\ history = selectHistory(tracking_history, user,
                                      request(selectedVehicle, dateRange))
           /\ stats = calculateStats(history)

\* C23: after any interleaving of markAsRead and deleteAlert calls on
\* different alerts that all succeed, once none is in flight the alerts
\* shown are the user's alerts in the store: an alert marked read is shown
\* read, a deleted alert is absent.
C23_AlertsAgreeWithStore ==
    (pendingAlert = {} /\ pendingFetch = {} /\ ~errorLogged)
        => alerts = alertsSelect(user, user).data

\* C24: when a simulateTracking call returns with all its statements
\* succeeded, no other call in flight, the selectedVehicle of TrackingPage
\* (the vehicle the call was made for) carries the coordinates of the point
\* the call inserted.
C24_SelectedVehicleRefreshed ==
    [][\A c \in pendingSimulate :
          (/\ c.await = "fetchVehicles" /\ c \notin pendingSimulate'
           /\ pendingSimulate' = {} /\ ~errorLogged'
           /\ trackingSelected' # NULL
           /\ trackingSelected'[1].id = c.selectedVehicle.id)
              => /\ trackingSelected'[1].last_location_lat = Value(c.newPoint.latitude)
                 /\ trackingSelected'[1].last_location_lng = Value(c.newPoint.longitude)]_vars

\* the points of vehicle v that simulateTracking calls have inserted
simulatedPoints(v) ==
    {r \in tracking_history : r.vehicle_id = v /\ r.timestamp >= NewPointHour}

\* C25: after simulateTracking calls for a vehicle, overlapping or failing
\* as they may, once none is in flight the vehicle's last_location_lat and
\* last_location_lng in the store are the coordinates of its most recently
\* inserted point.
C25_LastLocationIsLatestPoint ==
    \A v \in vehicles_table :
        (/\ simulatedPoints(v.id) # {}
         /\ \A c \in pendingSimulate : c.selectedVehicle.id # v.id)
            => \E r \in simulatedPoints(v.id) :
                   /\ \A q \in simulatedPoints(v.id) : q.timestamp <= r.timestamp
                   /\ v.last_location_lat = Value(r.latitude)
                   /\ v.last_location_lng = Value(r.longitude)

\* the call of pendingSimulate' that a step has started or moved on
moved(c) == c \in pendingSimulate' /\ c \notin pendingSimulate

\* the point of call c, as a row in tracking_history
inserted(c, table) ==
    \E r \in table : /\ r.vehicle_id = c.selectedVehicle.id
                     /\ r.latitude = c.newPoint.latitude
                     /\ r.longitude = c.newPoint.longitude
                     /\ r.timestamp >= NewPointHour

\* C26: simulateTracking is ordered.  A call starts only with a selected
\* vehicle and a user; it goes on to the vehicles update only in the step
\* in which its insert succeeded, and vehicles changes only by a call that
\* awaits its update and whose point is in tracking_history; it goes on to
\* the refetches only in the step in which its update succeeded; a call
\* whose insert failed ends there, and vehicles, trackingData and the
\* vehicles list stay as they were.
C26_SimulateOrdered ==
    [][/\ \A c \in pendingSimulate' :
            /\ (moved(c) /\ c.await = "insert")
                   => trackingSelected # NULL /\ user # null
            /\ (moved(c) /\ c.await = "update")
                   => /\ response'.error = null
                      /\ inserted(c, tracking_history')
                      /\ tracking_history' # tracking_history
            /\ (moved(c) /\ c.await = "fetchTrackingData")
                   => /\ response'.error = null
                      /\ inserted(c, tracking_history)
                      /\ [c EXCEPT !.await = "update"] \in pendingSimulate
            /\ (moved(c) /\ c.await = "fetchVehicles")
                   => [c EXCEPT !.await = "fetchTrackingData"] \in pendingSimulate
       /\ vehicles_table' # vehicles_table
              => \E c \in pendingSimulate :
                     /\ c.await = "update" /\ c \notin pendingSimulate'
                     /\ inserted(c, tracking_history)
       /\ \A c \in pendingSimulate :
              (c.await = "insert" /\ c \notin pendingSimulate' /\ response'.error # null)
                  => /\ \A d \in pendingSimulate' : d.n # c.n
                     /\ vehicles_table' = vehicles_table
                     /\ trackingData' = trackingData
                     /\ trackingVehicles' = trackingVehicles]_vars

\* a call whose insert failed has returned: no point, the vehicle and the
\* page as before
C26_Witness ==
    /\ simulateCalls = 1 /\ pendingSimulate = {}
    /\ response.error # null /\ errorLogged
    /\ simulatedPoints("v1") = {}
    /\ vehiclesTable[1] \in vehicles_table
    /\ trackingSelected = Value(vehiclesTable[1])

\* C27: when the delete of handleDelete fails, the vehicles list is
\* unchanged and deletingVehicle is not cleared; when it succeeds, exactly
\* that vehicle and no other leaves the list, and deletingVehicle is
\* cleared.
C27_DeleteOutcome ==
    [][\A c \in pendingDelete :
          c \notin pendingDelete'
              => IF response'.error # null
                 THEN pageVehicles' = pageVehicles /\ deletingVehicle' = deletingVehicle
                 ELSE /\ pageVehicles' = {v \in pageVehicles : v.id # c.vehicleId}
                      /\ deletingVehicle' = null]_vars
====
